---- MODULE Spec2Model ----
(***************************************************************************)
(* Exchange-rate cache of valutatrade_hub: the rate store file, the        *)
(* resolver get_exchange_rate, the freshness check is_rates_cache_fresh,   *)
(* the provider clients and the update coordinator RatesUpdater.           *)
(*                                                                         *)
(* Numbers are exact rationals [n, d] (d > 0, lowest terms): a Python      *)
(* float is modelled without rounding, so "equal" below means equal as     *)
(* rationals (the spec's "within floating-point tolerance").               *)
(***************************************************************************)
EXTENDS Integers, Sequences, FiniteSets, TLC

VARIABLES
    fs,        \* the data directory: [dir: path -> inode or 0, data: inode -> chunks]
    now,       \* the wall clock, in ticks of TickSeconds seconds
    py311,     \* TRUE iff the interpreter is Python >= 3.11 (fromisoformat accepts "Z")
    last,      \* the last finished call: its name, arguments and outcome
    runs,      \* the number of run_update calls made
    wr,        \* the writer inside save_current_rates (step-level specification)
    rd         \* the reader inside load_rates (step-level specification)

vars == <<fs, now, py311, last, runs, wr, rd>>

\* ------------------------------------------------------------------ bounds

MaxRate == 3        \* the largest rate drawn as an input
MaxEntries == 3     \* pairs held by a store drawn as an input of the resolver
MaxTicks == 3       \* the clock stops at MaxTicks ticks
MaxInodes == 4      \* file objects of the data directory
MaxRuns == 2        \* update runs that persist, per behaviour
MaxBalance == 3     \* the largest finite wallet balance reached

\* ------------------------------------------------------- program constants

DefaultTtlSeconds == 300   \* settings.py: RATES_TTL_SECONDS default

\* Seconds per tick of the clock: the TTL is two ticks.
TickSeconds == DefaultTtlSeconds \div 2

\* -------------------------------------------------------------- rationals

RECURSIVE Gcd(_, _)
Gcd(a, b) == IF b = 0 THEN a ELSE Gcd(b, a % b)

Abs(x) == IF x < 0 THEN -x ELSE x

\* The rational n/d in lowest terms with a positive denominator (d # 0).
Rat(n, d) ==
    LET s == IF d < 0 THEN -1 ELSE 1
        g == Gcd(Abs(n), Abs(d))
    IN  [t |-> "num", n |-> (s * n) \div g, d |-> (s * d) \div g]

RatDiv(x, y) == Rat(x.n * y.d, x.d * y.n)     \* x / y, y # 0
RatInv(x) == Rat(x.d, x.n)                    \* 1.0 / x, x # 0
RatPos(x) == x.n > 0                          \* x > 0
RatOne == Rat(1, 1)

\* ------------------------------------------------------------ JSON values

JNull == [t |-> "null"]
JStr(s) == [t |-> "str", s |-> s]
JList(items) == [t |-> "list", items |-> items]
JDict(f) == [t |-> "dict", d |-> f]
EmptyDict == JDict(<<>>)

\* The string datetime.isoformat() gives for the clock reading `time`, with a
\* trailing "Z" when z.
IsoStr(time, z) == [t |-> "isostr", time |-> time, z |-> z]
IsStr(v) == v.t \in {"str", "isostr"}   \* isinstance(v, str)

IsDict(v) == v.t = "dict"          \* isinstance(v, dict)
IsNumber(v) == v.t = "num"         \* isinstance(v, (int, float))
Has(v, k) == k \in DOMAIN v.d      \* k in v
Get(v, k) == v.d[k]                \* v[k]

\* Python truthiness of a JSON value: `not v` is ~Truthy(v).
Truthy(v) ==
    CASE v.t = "null" -> FALSE
      [] v.t = "str"  -> v.s # ""
      [] v.t = "num"  -> v.n # 0
      [] v.t = "dict" -> DOMAIN v.d # {}
      [] v.t = "list" -> Len(v.items) > 0
      [] OTHER        -> TRUE

\* Python None as a return value.
None == [t |-> "None"]

\* ------------------------------------------------------------- currencies

\* The codes of the default currency registry (currencies.py).
CurrencyRegistry ==
    {"USD", "EUR", "GBP", "RUB", "JPY", "CNY",
     "BTC", "ETH", "USDT", "BNB", "SOL", "XRP"}

\* code.upper().strip() on the strings the model passes as currency codes.
UpperStrip(code) ==
    CASE code = "btc"   -> "BTC"
      [] code = " eur " -> "EUR"
      [] OTHER          -> code

is_currency_supported(code) == UpperStrip(code) \in CurrencyRegistry

\* validate_currency_code: the normalised code, or the raised error.
validate_currency_code(code) ==
    IF is_currency_supported(UpperStrip(code))
    THEN [raised |-> "", code |-> UpperStrip(code)]
    ELSE [raised |-> "CurrencyNotFoundError", code |-> UpperStrip(code)]

\* f"{from_c}_{to_c}"
PairKey(from_c, to_c) == from_c \o "_" \o to_c

\* pair.split("_") for a key made of two registry codes.
SplitPair(pair) ==
    CHOOSE p \in CurrencyRegistry \X CurrencyRegistry : PairKey(p[1], p[2]) = pair

\* ------------------------------------------------------------ file system

RATES_FILE == "data/rates.json"               \* rates_file / RATES_FILE_PATH
HISTORY_FILE == "data/exchange_rates.json"    \* HISTORY_FILE_PATH
TempFile(path) == path \o ".tmp"              \* self.rates_file + ".tmp"

Paths == {RATES_FILE, TempFile(RATES_FILE), HISTORY_FILE}
Inodes == 1..MaxInodes

\* The inode a path keeps once no file is open (inode numbers are not
\* observable by the program).
HomeInode(p) ==
    CASE p = RATES_FILE -> 1
      [] p = TempFile(RATES_FILE) -> 2
      [] OTHER -> 3

FsExists(f, p) == f.dir[p] # 0                \* os.path.exists(p)
FsContent(f, p) == f.data[f.dir[p]]

\* Inodes in use: named by a path or held open (`held`).
FsUsed(f, held) == {f.dir[p] : p \in Paths} \cup held
FsFree(f, held) == Inodes \ FsUsed(f, held)

\* Forget the content of the inodes nothing refers to anymore.
FsGc(f, held) ==
    CHOOSE out \in
        {[g EXCEPT !.data = [i \in Inodes |->
            IF i \in FsUsed(g, held) THEN g.data[i] ELSE <<>>]] : g \in {f}} : TRUE

\* open(p, "w"): creates the file, or truncates the file p names.
FsOpenW(f, p, held) ==
    LET Opened(g) ==
          IF FsExists(g, p)
          THEN [g EXCEPT !.data[g.dir[p]] = <<>>]
          ELSE CHOOSE out \in
                 {[g EXCEPT !.dir[p] = i, !.data[i] = <<>>] :
                    i \in {x \in FsFree(g, held) : \A y \in FsFree(g, held) : x <= y}} : TRUE
    IN  CHOOSE out \in {Opened(g) : g \in {f}} : TRUE

\* The chunk read where nothing was written (a hole left by a truncation).
Nul == [c |-> "nul"]

\* write() of one chunk at chunk offset off (1-based) of inode i.
FsWriteAt(f, i, off, chunk) ==
    LET old == f.data[i]
        n == IF off > Len(old) THEN off ELSE Len(old)
    IN  [f EXCEPT !.data[i] = [k \in 1..n |->
            IF k = off THEN chunk
            ELSE IF k <= Len(old) THEN old[k] ELSE Nul]]

\* write() of every chunk of `chunks`, one after the other from offset 1.
FsWriteAll(f, i, chunks) ==
    LET Written(g, c) ==
          LET old == g.data[i]
              n == IF Len(c) > Len(old) THEN Len(c) ELSE Len(old)
          IN  [g EXCEPT !.data[i] = [k \in 1..n |-> IF k <= Len(c) THEN c[k] ELSE old[k]]]
    IN  CHOOSE out \in {Written(g, c) : g \in {f}, c \in {chunks}} : TRUE

\* os.replace(src, dst): dst names src's inode, atomically; src is gone.
FsReplace(f, src, dst, held) ==
    IF src = dst THEN f
    ELSE FsGc([f EXCEPT !.dir[dst] = f.dir[src], !.dir[src] = 0], held)

\* os.remove(p)
FsRemove(f, p, held) == FsGc([f EXCEPT !.dir[p] = 0], held)

\* With no file open: every path on its home inode.
FsNormal(f) ==
    CHOOSE out \in
        {[dir |-> [p \in Paths |-> IF FsExists(g, p) THEN HomeInode(p) ELSE 0],
          data |-> [i \in Inodes |->
             IF \E p \in Paths : FsExists(g, p) /\ HomeInode(p) = i
             THEN FsContent(g, CHOOSE p \in Paths : FsExists(g, p) /\ HomeInode(p) = i)
             ELSE <<>>]] : g \in {f}} : TRUE

EmptyFs == [dir |-> [p \in Paths |-> 0], data |-> [i \in Inodes |-> <<>>]]

\* The directory with p holding `chunks` (and f's other files).
FsWith(f, p, chunks) ==
    CHOOSE out \in {FsNormal(FsWriteAll(g, g.dir[p], chunks)) : g \in {FsOpenW(f, p, {})}} : TRUE

\* ---------------------------------------------------------- JSON documents

\* Every pair key of the model, in the order a Python dict built by
\* run_update iterates (crypto pairs, then fiat pairs), then the others.
AllKeys ==
    <<"BTC_USD", "ETH_USD", "EUR_USD", "GBP_USD", "USD_EUR", "USD_BTC",
      "EUR_BTC", "BTC_EUR", "EUR_EUR">>

\* dict.items() of a dict keyed by pair keys.
Items(f) == SelectSeq(AllKeys, LAMBDA k : k \in DOMAIN f)

\* json.dump(v, f): the chunks written, in order. A document is "{", its
\* members and "}"; the "pairs" dict is "pairs{", one chunk per pair, "pairs}".
DumpDict(v) ==
    LET pairsPart ==
            IF ~Has(v, "pairs") THEN <<>>
            ELSE IF IsDict(Get(v, "pairs"))
            THEN LET keys == Items(Get(v, "pairs").d)
                 IN  <<[c |-> "pairs{"]>>
                     \o [i \in 1..Len(keys) |->
                           [c |-> "pair", k |-> keys[i], v |-> Get(v, "pairs").d[keys[i]]]]
                     \o <<[c |-> "pairs}"]>>
            ELSE <<[c |-> "member", k |-> "pairs", v |-> Get(v, "pairs")]>>
        refreshPart ==
            IF Has(v, "last_refresh")
            THEN <<[c |-> "member", k |-> "last_refresh", v |-> Get(v, "last_refresh")]>>
            ELSE <<>>
    IN  <<[c |-> "{"]>> \o pairsPart \o refreshPart \o <<[c |-> "}"]>>

DumpList(v) ==
    <<[c |-> "["]>>
    \o [i \in 1..Len(v.items) |-> [c |-> "item", v |-> v.items[i]]]
    \o <<[c |-> "]"]>>

Dump(v) ==
    CHOOSE out \in {IF IsDict(w) THEN DumpDict(w) ELSE DumpList(w) : w \in {v}} : TRUE

\* A text no JSON parser accepts.
Garbage == <<[c |-> "garbage"]>>

\* A file whose bytes are no UTF-8 text: reading it raises UnicodeDecodeError.
Undecodable == <<[c |-> "bytes"]>>

\* Whether chunk i lies inside the "pairs" dict: a "pairs{" before it is
\* not yet closed.
InPairs(chunks, i) ==
    \E j \in 1..(i - 1) :
        /\ chunks[j].c = "pairs{"
        /\ \A m \in (j + 1)..(i - 1) : chunks[m].c # "pairs}"

\* Whether json.load accepts the text: "{", members and a bracketed "pairs"
\* dict, "}"; or "[", items, "]".
ValidJson(chunks) ==
    LET n == Len(chunks)
    IN  /\ n >= 2
        /\ \/ /\ chunks[1].c = "{"
              /\ chunks[n].c = "}"
              /\ ~InPairs(chunks, n)
              /\ \A i \in 2..(n - 1) :
                    \/ chunks[i].c \in {"member", "pairs{"} /\ ~InPairs(chunks, i)
                    \/ chunks[i].c \in {"pair", "pairs}"} /\ InPairs(chunks, i)
           \/ /\ chunks[1].c = "["
              /\ chunks[n].c = "]"
              /\ \A i \in 2..(n - 1) : chunks[i].c = "item"

\* The index of the last chunk of kind c with key k (0: none).
LastIndex(chunks, c, k) ==
    LET hits == {i \in 1..Len(chunks) : chunks[i].c = c /\ chunks[i].k = k}
    IN  IF hits = {} THEN 0 ELSE CHOOSE i \in hits : \A j \in hits : j <= i

\* json.load of a valid text: the value (a repeated key keeps its last value).
ParseValue(chunks) ==
    IF chunks[1].c = "["
    THEN JList([i \in 1..(Len(chunks) - 2) |-> chunks[i + 1].v])
    ELSE
      LET kinds == {chunks[i].c : i \in 1..Len(chunks)}
          pairKeys == {chunks[i].k : i \in {j \in 1..Len(chunks) : chunks[j].c = "pair"}}
          members == {chunks[i].k : i \in {j \in 1..Len(chunks) : chunks[j].c = "member"}}
          pairsDict == JDict([k \in pairKeys |-> chunks[LastIndex(chunks, "pair", k)].v])
          names == members \cup (IF "pairs{" \in kinds THEN {"pairs"} ELSE {})
      IN  JDict([m \in names |->
                IF m = "pairs" /\ "pairs{" \in kinds THEN pairsDict
                ELSE chunks[LastIndex(chunks, "member", m)].v])

\* --------------------------------------------------------- DatabaseManager

\* _ensure_file_exists(filepath, default_content), with no other process running.
ensure_file_exists(f, p, default) ==
    IF FsExists(f, p) THEN f ELSE FsWith(f, p, Dump(default))

\* json.load of a file opened as UTF-8 text: the value, JSONDecodeError, or
\* the UnicodeDecodeError of the read.
JsonLoad(chunks) ==
    CHOOSE out \in
        {IF \E i \in 1..Len(c) : c[i].c = "bytes"
         THEN [raised |-> "UnicodeDecodeError", value |-> None]
         ELSE IF ValidJson(c)
         THEN [raised |-> "", value |-> ParseValue(c)]
         ELSE [raised |-> "JSONDecodeError", value |-> None] : c \in {chunks}} : TRUE

\* DatabaseManager.load_rates, with no other process running: the directory
\* it leaves, the value it returns and the error it raises ("" for none):
\* JSONDecodeError is caught, any other error of the read is not.
load_rates(f) ==
    LET Loaded(g) ==
          CHOOSE out \in
            {[fs |-> g,
              data |-> IF r.raised = "JSONDecodeError" THEN EmptyDict ELSE r.value,
              raised |-> IF r.raised = "JSONDecodeError" THEN "" ELSE r.raised] :
               r \in {JsonLoad(FsContent(g, RATES_FILE))}} : TRUE
    IN  CHOOSE out \in {Loaded(g) : g \in {ensure_file_exists(f, RATES_FILE, EmptyDict)}} : TRUE

\* ------------------------------------------------------------- the resolver

\* get_direct_rate returning the reverse rate without inverting it.
get_direct_rate_uninverted(pairs, from_c, to_c) ==
    LET rate_key == PairKey(from_c, to_c)
        reverse_key == PairKey(to_c, from_c)
        usable(key) ==
            /\ Has(pairs, key)
            /\ IsDict(Get(pairs, key))
            /\ Has(Get(pairs, key), "rate")
            /\ IsNumber(Get(Get(pairs, key), "rate"))
            /\ RatPos(Get(Get(pairs, key), "rate"))
    IN  IF usable(rate_key) THEN Get(Get(pairs, rate_key), "rate")
        ELSE IF usable(reverse_key) THEN Get(Get(pairs, reverse_key), "rate")
        ELSE None

\* get_direct_rate accepting any numeric rate, not only a positive one.
get_direct_rate_unchecked(pairs, from_c, to_c) ==
    LET rate_key == PairKey(from_c, to_c)
        reverse_key == PairKey(to_c, from_c)
        usable(key) ==
            /\ Has(pairs, key)
            /\ IsDict(Get(pairs, key))
            /\ Has(Get(pairs, key), "rate")
            /\ IsNumber(Get(Get(pairs, key), "rate"))
    IN  IF usable(rate_key) THEN Get(Get(pairs, rate_key), "rate")
        ELSE IF usable(reverse_key) /\ Get(Get(pairs, reverse_key), "rate").n # 0
        THEN RatInv(Get(Get(pairs, reverse_key), "rate"))
        ELSE None

\* get_exchange_rate.get_direct_rate: the direct rate, else the inverse of
\* the reverse rate, else None.
get_direct_rate(pairs, from_c, to_c) ==
    LET rate_key == PairKey(from_c, to_c)
        reverse_key == PairKey(to_c, from_c)
        usable(key) ==
            /\ Has(pairs, key)
            /\ IsDict(Get(pairs, key))
            /\ Has(Get(pairs, key), "rate")
            /\ IsNumber(Get(Get(pairs, key), "rate"))
            /\ RatPos(Get(Get(pairs, key), "rate"))
    IN  IF usable(rate_key) THEN Get(Get(pairs, rate_key), "rate")
        ELSE IF usable(reverse_key) THEN RatInv(Get(Get(pairs, reverse_key), "rate"))
        ELSE None

\* resolve_loaded with the cross rate turned upside down.
resolve_loaded_swapped(rates_data, from_currency, to_currency) ==
    IF ~Truthy(rates_data) \/ ~IsDict(rates_data) THEN None
    ELSE IF ~Has(rates_data, "pairs") THEN None
    ELSE IF ~IsDict(Get(rates_data, "pairs")) THEN None
    ELSE
      LET pairs == Get(rates_data, "pairs")
          direct_rate == get_direct_rate(pairs, from_currency, to_currency)
          from_to_usd == get_direct_rate(pairs, from_currency, "USD")
          to_to_usd == get_direct_rate(pairs, to_currency, "USD")
      IN  IF direct_rate # None THEN direct_rate
          ELSE IF /\ from_currency # "USD" /\ to_currency # "USD"
                  /\ from_to_usd # None /\ to_to_usd # None /\ RatPos(to_to_usd)
          THEN RatDiv(to_to_usd, from_to_usd)
          ELSE None

\* The body of get_exchange_rate with a triangulation through any currency,
\* tried for USD queries too.
resolve_loaded_anyhop(rates_data, from_currency, to_currency) ==
    IF ~Truthy(rates_data) \/ ~IsDict(rates_data) THEN None
    ELSE IF ~Has(rates_data, "pairs") THEN None
    ELSE IF ~IsDict(Get(rates_data, "pairs")) THEN None
    ELSE
      LET pairs == Get(rates_data, "pairs")
          direct_rate == get_direct_rate(pairs, from_currency, to_currency)
          Via(mid) ==
              /\ mid # from_currency /\ mid # to_currency
              /\ get_direct_rate(pairs, from_currency, mid) # None
              /\ get_direct_rate(pairs, to_currency, mid) # None
      IN  IF direct_rate # None THEN direct_rate
          ELSE IF \E mid \in {"USD", "EUR", "BTC"} : Via(mid)
          THEN LET mid == CHOOSE m \in {"USD", "EUR", "BTC"} : Via(m)
               IN  RatDiv(get_direct_rate(pairs, from_currency, mid),
                          get_direct_rate(pairs, to_currency, mid))
          ELSE None

\* The body of get_exchange_rate after the store was loaded.
resolve_loaded(rates_data, from_currency, to_currency) ==
    IF ~Truthy(rates_data) \/ ~IsDict(rates_data) THEN None
    ELSE IF ~Has(rates_data, "pairs") THEN None
    ELSE IF ~IsDict(Get(rates_data, "pairs")) THEN None
    ELSE
      LET pairs == Get(rates_data, "pairs")
          direct_rate == get_direct_rate(pairs, from_currency, to_currency)
          from_to_usd == get_direct_rate(pairs, from_currency, "USD")
          to_to_usd == get_direct_rate(pairs, to_currency, "USD")
      IN  IF direct_rate # None THEN direct_rate
          ELSE IF /\ from_currency # "USD" /\ to_currency # "USD"
                  /\ from_to_usd # None /\ to_to_usd # None /\ RatPos(to_to_usd)
          THEN RatDiv(from_to_usd, to_to_usd)
          ELSE None

\* get_exchange_rate without the same-currency shortcut.
get_exchange_rate_noshortcut(f, from_currency, to_currency) ==
    LET a == validate_currency_code(from_currency)
        b == validate_currency_code(to_currency)
    IN  IF a.raised # "" \/ b.raised # ""
        THEN [fs |-> f, raised |-> "CurrencyNotFoundError", rate |-> None, loads |-> 0]
        ELSE CHOOSE out \in
               {IF loaded.raised # ""
                THEN [fs |-> loaded.fs, raised |-> loaded.raised, rate |-> None,
                      loads |-> 1]
                ELSE [fs |-> loaded.fs, raised |-> "",
                      rate |-> resolve_loaded(loaded.data, a.code, b.code), loads |-> 1] :
                  loaded \in {load_rates(f)}} : TRUE

\* get_exchange_rate(from_currency, to_currency): the directory it leaves,
\* the error it raises ("" for none), the rate it returns and the number of
\* times it called load_rates.
get_exchange_rate(f, from_currency, to_currency) ==
    LET a == validate_currency_code(from_currency)
        b == validate_currency_code(to_currency)
    IN  IF a.raised # "" \/ b.raised # ""
        THEN [fs |-> f, raised |-> "CurrencyNotFoundError", rate |-> None, loads |-> 0]
        ELSE IF a.code = b.code
        THEN [fs |-> f, raised |-> "", rate |-> RatOne, loads |-> 0]
        ELSE CHOOSE out \in
               {IF loaded.raised # ""
                THEN [fs |-> loaded.fs, raised |-> loaded.raised, rate |-> None,
                      loads |-> 1]
                ELSE [fs |-> loaded.fs, raised |-> "",
                      rate |-> resolve_loaded(loaded.data, a.code, b.code), loads |-> 1] :
                  loaded \in {load_rates(f)}} : TRUE

\* ---------------------------------------------------------------- freshness

\* datetime.now() and datetime.utcnow(), in ticks: the process runs in UTC,
\* so both read the same clock.
datetime_now(t) == t
datetime_utcnow(t) == t

\* datetime.fromisoformat(v): a non-string raises TypeError, a string that
\* is no ISO date raises ValueError; a trailing "Z" raises ValueError before
\* Python 3.11 and gives a timezone-aware datetime from 3.11 on.
fromisoformat(v, py) ==
    IF ~IsStr(v) THEN [raised |-> "TypeError", time |-> 0, aware |-> FALSE]
    ELSE IF v.t # "isostr" THEN [raised |-> "ValueError", time |-> 0, aware |-> FALSE]
    ELSE IF v.z /\ ~py THEN [raised |-> "ValueError", time |-> 0, aware |-> FALSE]
    ELSE [raised |-> "", time |-> v.time, aware |-> v.z]

\* (datetime.now() - dt).total_seconds(): subtracting an aware datetime from
\* the naive now() raises TypeError.
age_seconds(t, dt) ==
    IF dt.aware THEN [raised |-> "TypeError", seconds |-> 0]
    ELSE [raised |-> "", seconds |-> (datetime_now(t) - dt.time) * TickSeconds]

\* settings.get("rates_ttl_seconds", 300)
rates_ttl_seconds == DefaultTtlSeconds

\* is_rates_cache_fresh(): the directory it leaves, the error it raises and
\* the value it returns. rates.get raises AttributeError when the rate file
\* holds a list; every error of the parsing and of the subtraction is caught.
is_rates_cache_fresh(f, t, py) ==
    LET Checked(loaded) ==
          LET rates == loaded.data
              last_refresh ==
                  IF Has(rates, "last_refresh") THEN Get(rates, "last_refresh") ELSE JNull
              dt == fromisoformat(last_refresh, py)
              age == age_seconds(t, dt)
          IN  IF loaded.raised # ""
              THEN [fs |-> loaded.fs, raised |-> loaded.raised, fresh |-> FALSE]
              ELSE IF ~IsDict(rates)
              THEN [fs |-> loaded.fs, raised |-> "AttributeError", fresh |-> FALSE]
              ELSE IF ~Truthy(last_refresh)
              THEN [fs |-> loaded.fs, raised |-> "", fresh |-> FALSE]
              ELSE IF dt.raised # "" \/ age.raised # ""
              THEN [fs |-> loaded.fs, raised |-> "", fresh |-> FALSE]
              ELSE [fs |-> loaded.fs, raised |-> "", fresh |-> age.seconds < rates_ttl_seconds]
    IN  CHOOSE out \in {Checked(loaded) : loaded \in {load_rates(f)}} : TRUE

\* get_rate_with_ttl_check(from_currency, to_currency): the rate, the
\* updated_at of the pair it was read from and whether the staleness warning
\* is attached; ApiRequestError when the resolver finds no rate. A rate file
\* that holds a list has no "pairs" (`in` on a list); "pairs" that is a
\* string or a list holds no key; `in` on null or a number raises TypeError.
get_rate_with_ttl_check(f, from_currency, to_currency, t, py) ==
    LET rate_key == PairKey(from_currency, to_currency)
        reverse_key == PairKey(to_currency, from_currency)
        usd_key_from == PairKey(from_currency, "USD")
        UpdatedAt(rates_data) ==
            LET pairs == Get(rates_data, "pairs")
                stamp(key) == IF Has(Get(pairs, key), "updated_at")
                              THEN Get(Get(pairs, key), "updated_at") ELSE JStr("unknown")
            IN  IF ~IsDict(rates_data) THEN JStr("unknown")
                ELSE IF ~Has(rates_data, "pairs") THEN JStr("unknown")
                ELSE IF ~IsDict(pairs) THEN JStr("unknown")
                ELSE IF Has(pairs, rate_key) /\ IsDict(Get(pairs, rate_key))
                THEN stamp(rate_key)
                ELSE IF Has(pairs, reverse_key) /\ IsDict(Get(pairs, reverse_key))
                THEN stamp(reverse_key)
                ELSE IF Has(pairs, usd_key_from) /\ IsDict(Get(pairs, usd_key_from))
                THEN stamp(usd_key_from)
                ELSE JStr("unknown")
        Checked(r, loaded) ==
            IF loaded.raised # ""
            THEN [fs |-> loaded.fs, raised |-> loaded.raised, rate |-> None,
                  updated_at |-> None, warning |-> FALSE]
            ELSE IF /\ IsDict(loaded.data)
                    /\ Has(loaded.data, "pairs")
                    /\ Get(loaded.data, "pairs").t \in {"null", "num"}
            THEN [fs |-> loaded.fs, raised |-> "TypeError", rate |-> None,
                  updated_at |-> None, warning |-> FALSE]
            ELSE
            CHOOSE out \in
              {[fs |-> fresh.fs, raised |-> fresh.raised, rate |-> r.rate,
                updated_at |-> UpdatedAt(loaded.data), warning |-> ~fresh.fresh] :
                 fresh \in {is_rates_cache_fresh(loaded.fs, t, py)}} : TRUE
        Answered(r) ==
            IF r.raised # ""
            THEN [fs |-> r.fs, raised |-> r.raised, rate |-> None,
                  updated_at |-> None, warning |-> FALSE]
            ELSE IF r.rate = None
            THEN [fs |-> r.fs, raised |-> "ApiRequestError", rate |-> None,
                  updated_at |-> None, warning |-> FALSE]
            ELSE CHOOSE out \in {Checked(r, loaded) : loaded \in {load_rates(r.fs)}} : TRUE
    IN  CHOOSE out \in
          {Answered(r) : r \in {get_exchange_rate(f, from_currency, to_currency)}} : TRUE

\* ------------------------------------------------------------ RatesService

\* get_currency(code): the Currency of the registry (its code), or
\* CurrencyNotFoundError.
get_currency(code) ==
    IF UpperStrip(code) \in CurrencyRegistry
    THEN [raised |-> "", code |-> UpperStrip(code)]
    ELSE [raised |-> "CurrencyNotFoundError", code |-> UpperStrip(code)]

\* RatesService.get_rate with no handler for ApiRequestError.
RatesService_get_rate_uncaught(f, from_currency, to_currency, t, py) ==
    LET from_curr_obj == get_currency(from_currency)
        to_curr_obj == get_currency(to_currency)
        Got(r) ==
            IF r.raised = "CurrencyNotFoundError"
            THEN [fs |-> r.fs, raised |-> "", ok |-> FALSE, message |-> "not found",
                  rate |-> None, warning |-> FALSE]
            ELSE IF r.raised # ""
            THEN [fs |-> r.fs, raised |-> r.raised, ok |-> FALSE, message |-> "",
                  rate |-> None, warning |-> FALSE]
            ELSE [fs |-> r.fs, raised |-> "", ok |-> TRUE, message |-> "rate",
                  rate |-> r.rate, warning |-> r.warning]
    IN  IF from_curr_obj.raised # "" \/ to_curr_obj.raised # ""
        THEN [fs |-> f, raised |-> "", ok |-> FALSE, message |-> "not found",
              rate |-> None, warning |-> FALSE]
        ELSE CHOOSE out \in
               {Got(r) : r \in {get_rate_with_ttl_check(f, from_curr_obj.code,
                                                        to_curr_obj.code, t, py)}} : TRUE

\* RatesService.get_rate(from_currency, to_currency): the pair (ok, message)
\* it returns, with the rate and the warning the message shows, or the
\* error it lets through. CurrencyNotFoundError and ApiRequestError are
\* answered with (False, message); no other error is caught.
RatesService_get_rate(f, from_currency, to_currency, t, py) ==
    LET from_curr_obj == get_currency(from_currency)
        to_curr_obj == get_currency(to_currency)
        Got(r) ==
            IF r.raised = "CurrencyNotFoundError"
            THEN [fs |-> r.fs, raised |-> "", ok |-> FALSE, message |-> "not found",
                  rate |-> None, warning |-> FALSE]
            ELSE IF r.raised = "ApiRequestError"
            THEN [fs |-> r.fs, raised |-> "", ok |-> FALSE, message |-> "unavailable",
                  rate |-> None, warning |-> FALSE]
            ELSE IF r.raised # ""
            THEN [fs |-> r.fs, raised |-> r.raised, ok |-> FALSE, message |-> "",
                  rate |-> None, warning |-> FALSE]
            ELSE [fs |-> r.fs, raised |-> "", ok |-> TRUE, message |-> "rate",
                  rate |-> r.rate, warning |-> r.warning]
    IN  IF from_curr_obj.raised # "" \/ to_curr_obj.raised # ""
        THEN [fs |-> f, raised |-> "", ok |-> FALSE, message |-> "not found",
              rate |-> None, warning |-> FALSE]
        ELSE CHOOSE out \in
               {Got(r) : r \in {get_rate_with_ttl_check(f, from_curr_obj.code,
                                                        to_curr_obj.code, t, py)}} : TRUE

\* ------------------------------------------------------------ ParserConfig

BASE_CURRENCY == "USD"

\* CRYPTO_ID_MAP.items(), in order: two of its six currencies.
CRYPTO_ID_MAP == <<[code |-> "BTC", coin_id |-> "bitcoin"], [code |-> "ETH", coin_id |-> "ethereum"]>>

\* FIAT_CURRENCIES, in order: two of its five currencies.
FIAT_CURRENCIES == <<"EUR", "GBP">>

\* BASE_CURRENCY.lower()
BaseLower == "usd"

\* ----------------------------------------------------------- provider clients

\* CoinGeckoClient.fetch_rates, given what _fetch_with_retry gave: an
\* ApiRequestError, or the JSON of the reply. Every price the reply holds is
\* taken as it is.
CoinGeckoClient_fetch_rates(reply) ==
    IF reply.raised # "" THEN [raised |-> "ApiRequestError", rates |-> <<>>]
    ELSE IF reply.data = JNull THEN [raised |-> "ApiRequestError", rates |-> <<>>]
    ELSE
      LET data == reply.data
          taken == {i \in 1..Len(CRYPTO_ID_MAP) :
                      /\ Has(data, CRYPTO_ID_MAP[i].coin_id)
                      /\ Has(Get(data, CRYPTO_ID_MAP[i].coin_id), BaseLower)}
          keyOf(i) == PairKey(CRYPTO_ID_MAP[i].code, BASE_CURRENCY)
      IN  [raised |-> "",
           rates |-> [k \in {keyOf(i) : i \in taken} |->
                LET i == CHOOSE j \in taken : keyOf(j) = k
                IN  Get(Get(data, CRYPTO_ID_MAP[i].coin_id), BaseLower)]]

\* ExchangeRateApiClient.fetch_rates, given the API key and the HTTP reply
\* (status 0: the request timed out or could not connect). A pair is made of
\* every raw rate that is not 0, as 1.0 / raw; a raw rate that is no number
\* makes the division raise, which fails the fetch.
ExchangeRateApiClient_fetch_rates(api_key, reply) ==
    IF api_key = "" THEN [raised |-> "ApiRequestError", rates |-> <<>>]
    ELSE IF reply.status # 200 THEN [raised |-> "ApiRequestError", rates |-> <<>>]
    ELSE IF ~Has(reply.data, "result") \/ Get(reply.data, "result") # JStr("success")
    THEN [raised |-> "ApiRequestError", rates |-> <<>>]
    ELSE
      LET raw_rates == IF Has(reply.data, "conversion_rates")
                       THEN Get(reply.data, "conversion_rates") ELSE EmptyDict
          taken == {i \in 1..Len(FIAT_CURRENCIES) :
                      /\ FIAT_CURRENCIES[i] # BASE_CURRENCY
                      /\ Has(raw_rates, FIAT_CURRENCIES[i])
                      /\ Get(raw_rates, FIAT_CURRENCIES[i]) # Rat(0, 1)}
          keyOf(i) == PairKey(FIAT_CURRENCIES[i], BASE_CURRENCY)
      IN  IF \E i \in taken : ~IsNumber(Get(raw_rates, FIAT_CURRENCIES[i]))
          THEN [raised |-> "ApiRequestError", rates |-> <<>>]
          ELSE [raised |-> "",
                rates |-> [k \in {keyOf(i) : i \in taken} |->
                    LET i == CHOOSE j \in taken : keyOf(j) = k
                    IN  RatInv(Get(raw_rates, FIAT_CURRENCIES[i]))]]

\* -------------------------------------------------- requests of the clients

\* max_retries of _fetch_with_retry.
max_retries == 3

\* What requests.get meets: a response with a status (and the JSON of its
\* body), a timeout, or a connection that fails.
HttpResponse(status, data) == [kind |-> "response", status |-> status, data |-> data]
HttpTimeout == [kind |-> "Timeout"]
HttpConnectionError == [kind |-> "ConnectionError"]

\* response.raise_for_status() raises HTTPError.
IsHttpError(r) == r.kind = "response" /\ r.status >= 400 /\ r.status < 600

\* BaseApiClient._fetch_with_retry(url, params): responses[k] is what the
\* k-th request meets. Gives the error raised or the JSON returned, the
\* number of requests made and the waits slept, in order (seconds).
fetch_with_retry(responses) ==
    LET Step(prev, attempt) ==
          IF prev.done THEN prev
          ELSE
            LET r == responses[attempt + 1]
                asked == [prev EXCEPT !.requests = @ + 1]
            IN  IF r.kind = "response" /\ r.status = 429
                THEN [asked EXCEPT !.sleeps = Append(@, 2 ^ attempt)]
                ELSE IF r.kind = "response" /\ ~IsHttpError(r)
                THEN [asked EXCEPT !.done = TRUE, !.data = r.data]
                ELSE IF attempt = max_retries - 1
                THEN [asked EXCEPT !.done = TRUE, !.raised = "ApiRequestError"]
                ELSE asked
        acc[i \in 0..max_retries] ==
            IF i = 0
            THEN [done |-> FALSE, raised |-> "", data |-> JNull, requests |-> 0,
                  sleeps |-> <<>>]
            ELSE CHOOSE out \in {Step(prev, i - 1) : prev \in {acc[i - 1]}} : TRUE
    IN  CHOOSE out \in
          {IF end.done THEN end ELSE [end EXCEPT !.raised = "ApiRequestError"] :
             end \in {acc[max_retries]}} : TRUE

\* CoinGeckoClient.fetch_rates() against a server: the requests go through
\* _fetch_with_retry.
CoinGeckoClient_fetch(responses) ==
    LET Got(reply) ==
          CHOOSE out \in
            {[raised |-> got.raised, rates |-> got.rates,
              requests |-> reply.requests, sleeps |-> reply.sleeps] :
                got \in {CoinGeckoClient_fetch_rates(reply)}} : TRUE
    IN  CHOOSE out \in {Got(reply) : reply \in {fetch_with_retry(responses)}} : TRUE

\* ExchangeRateApiClient.fetch_rates() against a server: without an API key
\* no request is made; with one, requests.get is called once, directly.
ExchangeRateApiClient_fetch(api_key, responses) ==
    LET r == responses[1]
        reply == IF r.kind = "response" THEN [status |-> r.status, data |-> r.data]
                 ELSE [status |-> 0, data |-> JNull]
    IN  CHOOSE out \in
          {[raised |-> got.raised, rates |-> got.rates,
            requests |-> IF api_key = "" THEN 0 ELSE 1, sleeps |-> <<>>] :
              got \in {ExchangeRateApiClient_fetch_rates(api_key, reply)}} : TRUE

\* ------------------------------------------------------------- RatesStorage

\* The faults a storage call can meet: "" (none); "save_open", "save_write",
\* "save_replace": open / json.dump / os.replace of save_current_rates
\* raises; "hist_read": reading the history file raises; "hist_open",
\* "hist_write": open / json.dump of append_to_history's write raises.
StorageFaults ==
    {"", "save_open", "save_write", "save_replace", "hist_read", "hist_open", "hist_write"}

\* One pair of a snapshot, as save_current_rates writes it.
PairEntry(rate, timestamp, source) ==
    JDict([rate |-> rate, updated_at |-> timestamp, source |-> JStr(source)])

\* A snapshot document.
Snapshot(pairs, timestamp) == JDict([pairs |-> JDict(pairs), last_refresh |-> timestamp])

\* source_map.get(pair, "Unknown")
SourceOf(source_map, pair) == IF pair \in DOMAIN source_map THEN source_map[pair] ELSE "Unknown"

\* The document save_current_rates builds at clock reading t.
\* The snapshot with every rate cut to a whole number.
SnapshotOf_truncated(rates, source_map, t) ==
    LET timestamp == IsoStr(datetime_utcnow(t), TRUE)
        Whole(v) == IF IsNumber(v) THEN Rat(v.n \div v.d, 1) ELSE v
    IN  Snapshot([pair \in DOMAIN rates |->
                    PairEntry(Whole(rates[pair]), timestamp, SourceOf(source_map, pair))],
                 timestamp)

SnapshotOf(rates, source_map, t) ==
    LET timestamp == IsoStr(datetime_utcnow(t), TRUE)
    IN  Snapshot([pair \in DOMAIN rates |->
                    PairEntry(rates[pair], timestamp, SourceOf(source_map, pair))],
                 timestamp)

\* The rate file itself taken as the file save_current_rates writes to.
temp_file_inplace == RATES_FILE

\* temp_file = self.rates_file + ".tmp"
temp_file == TempFile(RATES_FILE)

\* The except branch of save_current_rates: the temporary file is removed.
SaveCleanup(f) ==
    CHOOSE out \in
        {IF FsExists(g, temp_file) THEN FsRemove(g, temp_file, {}) ELSE g : g \in {f}} : TRUE

\* save_current_rates(rates, source_map) with no other process running: the
\* snapshot is written to the temporary file, which then replaces the rate
\* file; when a step raises, the temporary file is removed and the error is
\* raised again.
save_current_rates(f, rates, source_map, t, fault) ==
    LET Written(written) ==
          IF fault = "save_replace"
          THEN [fs |-> FsNormal(SaveCleanup(written)), raised |-> "OSError"]
          ELSE [fs |-> FsNormal(FsReplace(written, temp_file, RATES_FILE, {})), raised |-> ""]
        Opened(opened) ==
          IF fault = "save_write"
          THEN [fs |-> FsNormal(SaveCleanup(opened)), raised |-> "OSError"]
          ELSE CHOOSE out \in
                 {Written(written) :
                    written \in {FsWriteAll(opened, opened.dir[temp_file],
                                            Dump(SnapshotOf(rates, source_map, t)))}} : TRUE
    IN  IF fault = "save_open"
        THEN [fs |-> FsNormal(SaveCleanup(f)), raised |-> "OSError"]
        ELSE CHOOSE out \in {Opened(opened) : opened \in {FsOpenW(f, temp_file, {})}} : TRUE

\* One record of the history log.
HistoryRecord(pair, rate, timestamp, source) ==
    JDict([id |-> [pair |-> pair, timestamp |-> timestamp],
           from_currency |-> JStr(SplitPair(pair)[1]),
           to_currency |-> JStr(SplitPair(pair)[2]),
           rate |-> rate,
           timestamp |-> timestamp,
           source |-> JStr(source)])

\* append_to_history(rates, source_map) with no other process running. A
\* history file that cannot be read or parsed counts as an empty history;
\* the whole history is then written over the file, in place.
append_to_history(f, rates, source_map, t, fault) ==
    LET timestamp == IsoStr(datetime_utcnow(t), TRUE)
        Records(keys) ==
            [i \in 1..Len(keys) |->
                HistoryRecord(keys[i], rates[keys[i]], timestamp, SourceOf(source_map, keys[i]))]
        Opened(opened, chunks) ==
            IF fault = "hist_write"
            THEN [fs |-> FsNormal(FsWriteAll(opened, opened.dir[HISTORY_FILE],
                                             SubSeq(chunks, 1, Len(chunks) - 1))),
                  raised |-> "OSError"]
            ELSE [fs |-> FsNormal(FsWriteAll(opened, opened.dir[HISTORY_FILE], chunks)),
                  raised |-> ""]
        Dumped(chunks) ==
            CHOOSE out \in
              {Opened(opened, chunks) : opened \in {FsOpenW(f, HISTORY_FILE, {})}} : TRUE
        Read(loaded) ==
            LET history == IF loaded.raised = "" THEN loaded.value ELSE JList(<<>>)
            IN  IF history.t # "list" /\ DOMAIN rates # {}
                THEN [fs |-> f, raised |-> "AttributeError"]
                ELSE IF fault = "hist_open" THEN [fs |-> f, raised |-> "OSError"]
                ELSE CHOOSE out \in
                       {Dumped(chunks) :
                          chunks \in {Dump(IF history.t = "list"
                                           THEN JList(history.items \o Records(Items(rates)))
                                           ELSE history)}} : TRUE
    IN  CHOOSE out \in
          {Read(loaded) :
             loaded \in {IF FsExists(f, HISTORY_FILE) /\ fault # "hist_read"
                         THEN JsonLoad(FsContent(f, HISTORY_FILE))
                         ELSE [raised |-> "unread", value |-> None]}} : TRUE

\* load_current_rates(): the mapping {pair: rate} of the rate file; {} when
\* the file is missing, and when reading, parsing or walking it raises.
load_current_rates(f) ==
    LET Rates(data) ==
          LET pairs == IF Has(data, "pairs") THEN Get(data, "pairs") ELSE EmptyDict
          IN  IF ~IsDict(data) \/ ~IsDict(pairs) THEN <<>>
              ELSE IF \E k \in DOMAIN pairs.d :
                        ~IsDict(pairs.d[k]) \/ ~Has(pairs.d[k], "rate")
              THEN <<>>
              ELSE [k \in DOMAIN pairs.d |-> Get(pairs.d[k], "rate")]
    IN  IF ~FsExists(f, RATES_FILE) THEN <<>>
        ELSE CHOOSE out \in
               {IF loaded.raised # "" THEN <<>> ELSE Rates(loaded.value) :
                  loaded \in {JsonLoad(FsContent(f, RATES_FILE))}} : TRUE

\* --------------------------------------------------------------- RatesUpdater

\* The class names of the clients cmd_update_rates configures, in order.
Clients == <<"CoinGeckoClient", "ExchangeRateApiClient">>

\* "CoinGecko" in client_name, "ExchangeRate" in client_name
IsCoinGecko(client_name) == client_name = "CoinGeckoClient"
IsExchangeRate(client_name) == client_name = "ExchangeRateApiClient"

\* source_filter.lower() on the filters the model passes ("" is None).
Lower(source_filter) ==
    CASE source_filter = "CoinGecko" -> "coingecko"
      [] OTHER -> source_filter

\* Whether run_update skips the client under the filter.
Skipped(client_name, source_filter) ==
    /\ source_filter # ""
    /\ \/ Lower(source_filter) = "coingecko" /\ ~IsCoinGecko(client_name)
       \/ Lower(source_filter) = "exchangerate" /\ ~IsExchangeRate(client_name)

\* The source name run_update records for a client's pairs.
SourceName(client_name) ==
    IF IsCoinGecko(client_name) THEN "CoinGecko"
    ELSE IF IsExchangeRate(client_name) THEN "ExchangeRate-API"
    ELSE "Unknown"

\* The loop of run_update with the failure of a client left unreported.
FetchLoop_unreported(fetched, source_filter, n) ==
    LET Step(prev, client_name, got) ==
            IF Skipped(client_name, source_filter) THEN prev
            ELSE IF got.raised = ""
            THEN [all_rates |-> got.rates @@ prev.all_rates,
                  source_map |-> [k \in DOMAIN got.rates |-> SourceName(client_name)]
                                 @@ prev.source_map,
                  errors |-> prev.errors,
                  successful_sources |-> Append(prev.successful_sources, client_name),
                  invoked |-> Append(prev.invoked, client_name)]
            ELSE [prev EXCEPT !.invoked = Append(@, client_name)]
        acc[i \in 0..n] ==
            IF i = 0
            THEN [all_rates |-> <<>>, source_map |-> <<>>, errors |-> <<>>,
                  successful_sources |-> <<>>, invoked |-> <<>>]
            ELSE CHOOSE out \in
                   {Step(prev, Clients[i], fetched[i]) : prev \in {acc[i - 1]}} : TRUE
    IN  acc[n]

\* The loop of run_update with the pairs of an earlier client kept when a
\* later client returns the same key.
FetchLoop_firstwins(fetched, source_filter, n) ==
    LET Step(prev, client_name, got) ==
            IF Skipped(client_name, source_filter) THEN prev
            ELSE IF got.raised = ""
            THEN [all_rates |-> prev.all_rates @@ got.rates,
                  source_map |-> prev.source_map
                                 @@ [k \in DOMAIN got.rates |-> SourceName(client_name)],
                  errors |-> prev.errors,
                  successful_sources |-> Append(prev.successful_sources, client_name),
                  invoked |-> Append(prev.invoked, client_name)]
            ELSE [prev EXCEPT
                    !.errors = Append(@, [client |-> client_name,
                        text |-> IF got.raised = "ApiRequestError"
                                 THEN "FAILED" ELSE "UNEXPECTED ERROR"]),
                    !.invoked = Append(@, client_name)]
        acc[i \in 0..n] ==
            IF i = 0
            THEN [all_rates |-> <<>>, source_map |-> <<>>, errors |-> <<>>,
                  successful_sources |-> <<>>, invoked |-> <<>>]
            ELSE CHOOSE out \in
                   {Step(prev, Clients[i], fetched[i]) : prev \in {acc[i - 1]}} : TRUE
    IN  acc[n]

\* The loop of run_update given up at the first client that raises.
FetchLoop_stopping(fetched, source_filter, n) ==
    LET Step(prev, client_name, got) ==
            IF Skipped(client_name, source_filter) \/ prev.errors # <<>> THEN prev
            ELSE IF got.raised = ""
            THEN [all_rates |-> got.rates @@ prev.all_rates,
                  source_map |-> [k \in DOMAIN got.rates |-> SourceName(client_name)]
                                 @@ prev.source_map,
                  errors |-> prev.errors,
                  successful_sources |-> Append(prev.successful_sources, client_name),
                  invoked |-> Append(prev.invoked, client_name)]
            ELSE [prev EXCEPT
                    !.errors = Append(@, [client |-> client_name,
                        text |-> IF got.raised = "ApiRequestError"
                                 THEN "FAILED" ELSE "UNEXPECTED ERROR"]),
                    !.invoked = Append(@, client_name)]
        acc[i \in 0..n] ==
            IF i = 0
            THEN [all_rates |-> <<>>, source_map |-> <<>>, errors |-> <<>>,
                  successful_sources |-> <<>>, invoked |-> <<>>]
            ELSE CHOOSE out \in
                   {Step(prev, Clients[i], fetched[i]) : prev \in {acc[i - 1]}} : TRUE
    IN  acc[n]

\* The loop of run_update over the first n clients: fetched[i] is what
\* client i's fetch_rates gives (its error and its rates).
FetchLoop(fetched, source_filter, n) ==
    LET Step(prev, client_name, got) ==
            IF Skipped(client_name, source_filter) THEN prev
            ELSE IF got.raised = ""
            THEN [all_rates |-> got.rates @@ prev.all_rates,
                  source_map |-> [k \in DOMAIN got.rates |-> SourceName(client_name)]
                                 @@ prev.source_map,
                  errors |-> prev.errors,
                  successful_sources |-> Append(prev.successful_sources, client_name),
                  invoked |-> Append(prev.invoked, client_name)]
            ELSE [prev EXCEPT
                    !.errors = Append(@, [client |-> client_name,
                        text |-> IF got.raised = "ApiRequestError"
                                 THEN "FAILED" ELSE "UNEXPECTED ERROR"]),
                    !.invoked = Append(@, client_name)]
        acc[i \in 0..n] ==
            IF i = 0
            THEN [all_rates |-> <<>>, source_map |-> <<>>, errors |-> <<>>,
                  successful_sources |-> <<>>, invoked |-> <<>>]
            ELSE CHOOSE out \in
                   {Step(prev, Clients[i], fetched[i]) : prev \in {acc[i - 1]}} : TRUE
    IN  acc[n]

\* The persisting step of run_update with the pairs of the previous snapshot
\* kept next to the pairs of the run.
Persist_merging(f, all_rates, source_map, t, fault) ==
    LET Kept(d) ==
          IF IsDict(d) /\ Has(d, "pairs") /\ IsDict(Get(d, "pairs"))
          THEN [k \in DOMAIN Get(d, "pairs").d |->
                  IF IsDict(Get(d, "pairs").d[k]) /\ Has(Get(d, "pairs").d[k], "rate")
                  THEN Get(Get(d, "pairs").d[k], "rate") ELSE JNull]
          ELSE <<>>
        Saved(saved) ==
          IF saved.raised # ""
          THEN [fs |-> saved.fs, raised |-> saved.raised, tried |-> TRUE]
          ELSE CHOOSE out \in
                 {[fs |-> appended.fs, raised |-> appended.raised, tried |-> TRUE] :
                    appended \in {append_to_history(saved.fs, all_rates, source_map,
                                                    t, fault)}} : TRUE
        Merged(rates) ==
          CHOOSE out \in
            {Saved(saved) :
               saved \in {save_current_rates(f, rates, source_map, t, fault)}} : TRUE
    IN  IF DOMAIN all_rates = {} THEN [fs |-> f, raised |-> "", tried |-> FALSE]
        ELSE CHOOSE out \in
               {Merged(all_rates @@ Kept(old)) : old \in {load_rates(f).data}} : TRUE

\* The storage calls of run_update made also for an empty merge.
Persist_always(f, all_rates, source_map, t, fault) ==
    LET Saved(saved) ==
          IF saved.raised # ""
          THEN [fs |-> saved.fs, raised |-> saved.raised, tried |-> TRUE]
          ELSE CHOOSE out \in
                 {[fs |-> appended.fs, raised |-> appended.raised, tried |-> TRUE] :
                    appended \in {append_to_history(saved.fs, all_rates, source_map,
                                                    t, fault)}} : TRUE
    IN  CHOOSE out \in
          {Saved(saved) :
             saved \in {save_current_rates(f, all_rates, source_map, t, fault)}} : TRUE

\* The persisting step of run_update: save_current_rates, then
\* append_to_history; an error of either is caught and reported.
Persist(f, all_rates, source_map, t, fault) ==
    LET Saved(saved) ==
          IF saved.raised # ""
          THEN [fs |-> saved.fs, raised |-> saved.raised, tried |-> TRUE]
          ELSE CHOOSE out \in
                 {[fs |-> appended.fs, raised |-> appended.raised, tried |-> TRUE] :
                    appended \in {append_to_history(saved.fs, all_rates, source_map,
                                                    t, fault)}} : TRUE
    IN  IF DOMAIN all_rates = {} THEN [fs |-> f, raised |-> "", tried |-> FALSE]
        ELSE CHOOSE out \in
               {Saved(saved) :
                  saved \in {save_current_rates(f, all_rates, source_map, t, fault)}} : TRUE

\* run_update with a storage failure taken as the failure of the whole run:
\* no success, no rates counted, no successful source.
run_update_unforgiving(f, t, source_filter, fetched, fault) ==
    LET Stored(loop, stored) ==
          [fs |-> stored.fs,
           all_rates |-> loop.all_rates,
           invoked |-> loop.invoked,
           stored |-> stored,
           result |-> [success |-> stored.raised = ""
                                   /\ Cardinality(DOMAIN loop.all_rates) > 0,
                       total_rates |-> IF stored.raised # "" THEN 0
                                       ELSE Cardinality(DOMAIN loop.all_rates),
                       successful_sources |-> IF stored.raised # "" THEN <<>>
                                              ELSE loop.successful_sources,
                       errors |-> IF stored.raised # ""
                                  THEN Append(loop.errors,
                                              [client |-> "storage",
                                               text |-> "Failed to save to storage"])
                                  ELSE loop.errors,
                       timestamp |-> IsoStr(datetime_utcnow(t), TRUE)]]
        Fetched(loop) ==
          CHOOSE out \in
            {Stored(loop, stored) :
               stored \in {Persist(f, loop.all_rates, loop.source_map, t, fault)}} : TRUE
    IN  CHOOSE out \in
          {Fetched(loop) : loop \in {FetchLoop(fetched, source_filter, Len(Clients))}} : TRUE

\* run_update(source_filter) at clock reading t: the directory it leaves and
\* the result it returns.
run_update(f, t, source_filter, fetched, fault) ==
    LET Stored(loop, stored) ==
          [fs |-> stored.fs,
           all_rates |-> loop.all_rates,
           invoked |-> loop.invoked,
           stored |-> stored,
           result |-> [success |-> Cardinality(DOMAIN loop.all_rates) > 0,
                       total_rates |-> Cardinality(DOMAIN loop.all_rates),
                       successful_sources |-> loop.successful_sources,
                       errors |-> IF stored.raised # ""
                                  THEN Append(loop.errors,
                                              [client |-> "storage",
                                               text |-> "Failed to save to storage"])
                                  ELSE loop.errors,
                       timestamp |-> IsoStr(datetime_utcnow(t), TRUE)]]
        Fetched(loop) ==
          CHOOSE out \in
            {Stored(loop, stored) :
               stored \in {Persist(f, loop.all_rates, loop.source_map, t, fault)}} : TRUE
    IN  CHOOSE out \in
          {Fetched(loop) : loop \in {FetchLoop(fetched, source_filter, Len(Clients))}} : TRUE

\* ------------------------------------------------------------ the command

\* ParserConfig.validate(): raises ValueError without an API key.
validate(api_key) == IF api_key = "" THEN "ValueError" ELSE ""

\* cmd_update_rates(args) with args["source"] = source ("" is None): the
\* configuration is validated, and only then are the clients and the storage
\* built and run_update called. `fetched` is what the fetch_rates of the two
\* clients would give.
cmd_update_rates(f, t, source, api_key, fetched, fault) ==
    IF validate(api_key) # ""
    THEN [fs |-> f, returned |-> "ERROR", all_rates |-> <<>>, invoked |-> <<>>,
          result |-> None]
    ELSE CHOOSE out \in
           {[fs |-> r.fs, returned |-> "", all_rates |-> r.all_rates,
             invoked |-> r.invoked, result |-> r.result] :
               r \in {run_update(f, t, source, fetched, fault)}} : TRUE

\* ------------------------------------------------ stores drawn as inputs

\* The pair keys of the stores drawn for the resolver.
StoreKeys == {"EUR_BTC", "BTC_EUR", "EUR_USD", "BTC_USD", "USD_EUR", "EUR_EUR"}

\* The numbers drawn as the "rate" of a pair: negative, zero and positive.
RateValues == {Rat(-1, 1), Rat(0, 1), Rat(2, 1), Rat(MaxRate, 1)}

\* Stores of at most MaxEntries pairs.
DrawnPairs ==
    UNION {[K -> {PairEntry(v, IsoStr(0, TRUE), "CoinGecko") : v \in RateValues}] :
             K \in {S \in SUBSET StoreKeys : Cardinality(S) <= MaxEntries}}

\* Stores with a pair that is no dict, a dict without "rate", or a dict whose
\* "rate" is null.
OddPairs ==
    {("EUR_BTC" :> odd) @@ rest :
        odd \in {JStr("n/a"), JDict([source |-> JStr("CoinGecko")]),
                 PairEntry(JNull, IsoStr(0, TRUE), "CoinGecko")},
        rest \in {<<>>, "BTC_EUR" :> PairEntry(Rat(2, 1), IsoStr(0, TRUE), "CoinGecko")}}

\* Rate files that are no snapshot: invalid JSON, a list, {}, no "pairs",
\* "pairs" that is no dict.
OddTexts ==
    {Garbage, Dump(JList(<<>>)), Dump(EmptyDict),
     Dump(JDict([last_refresh |-> IsoStr(0, TRUE)])),
     Dump(JDict([pairs |-> JStr("n/a"), last_refresh |-> IsoStr(0, TRUE)]))}

ResolveStores ==
    {EmptyFs}
    \cup {FsWith(EmptyFs, RATES_FILE, t) : t \in OddTexts}
    \cup {FsWith(EmptyFs, RATES_FILE, Dump(Snapshot(p, IsoStr(0, TRUE)))) :
            p \in DrawnPairs \cup OddPairs}

\* The calls of the resolver drawn: every pair of three registry codes, and
\* calls with a lower-case code, a padded code and an unknown code.
Queries ==
    ({"USD", "EUR", "BTC"} \X {"USD", "EUR", "BTC"})
    \cup {<<"btc", "EUR">>, <<"btc", "BTC">>, <<" eur ", "USD">>,
          <<"DOGE", "USD">>, <<"DOGE", "DOGE">>, <<"EUR", "DOGE">>}

Idle == [pc |-> "idle", ino |-> 0]

InitResolve ==
    /\ fs \in ResolveStores
    /\ now = 0
    /\ py311 = FALSE
    /\ last = [op |-> "init"]
    /\ runs = 0
    /\ wr = Idle
    /\ rd = Idle

\* A call of get_exchange_rate(from_currency, to_currency).
GetExchangeRate(from_currency, to_currency) ==
    /\ last.op = "init"
    /\ \E r \in {get_exchange_rate(fs, from_currency, to_currency)} :
        /\ fs' = r.fs
        /\ last' = [op |-> "get_exchange_rate",
                    from |-> from_currency, to |-> to_currency,
                    raised |-> r.raised, rate |-> r.rate, loads |-> r.loads,
                    before |-> fs]
        /\ UNCHANGED <<now, py311, runs, wr, rd>>

NextResolve == \E q \in Queries : GetExchangeRate(q[1], q[2])

SpecResolve == InitResolve /\ [][NextResolve]_vars

\* ------------------------------------------------- claims on the resolver

\* The last call was a get_exchange_rate that returned.
Resolved == last.op = "get_exchange_rate" /\ last.raised = ""
From == UpperStrip(last.from)
To == UpperStrip(last.to)

\* The "pairs" dict of the rate file of directory f ({} when it has none).
StoredPairs(f) ==
    LET d == load_rates(f).data
    IN  IF IsDict(d) /\ Has(d, "pairs") /\ IsDict(Get(d, "pairs"))
        THEN Get(d, "pairs") ELSE EmptyDict

\* The pair `key` is stored with a number as its rate.
NumericRate(pairs, key) ==
    /\ Has(pairs, key)
    /\ IsDict(Get(pairs, key))
    /\ Has(Get(pairs, key), "rate")
    /\ IsNumber(Get(Get(pairs, key), "rate"))

StoredRate(pairs, key) == Get(Get(pairs, key), "rate")
PositiveRate(pairs, key) == NumericRate(pairs, key) /\ RatPos(StoredRate(pairs, key))
NonPositiveRate(pairs, key) == NumericRate(pairs, key) /\ ~RatPos(StoredRate(pairs, key))

\* The directory f with the pair `key` taken out of its snapshot.
WithoutPair(f, key) ==
    LET d == load_rates(f).data
        pairs == Get(d, "pairs").d
    IN  FsWith(EmptyFs, RATES_FILE,
               Dump(JDict([m \in DOMAIN d.d |->
                    IF m = "pairs"
                    THEN JDict([k \in DOMAIN pairs \ {key} |-> pairs[k]])
                    ELSE d.d[m]])))

\* C1, as stated: for every store (also one holding both A_B and B_A) and
\* every stored pair A_B with rate > 0, get_exchange_rate(B, A) equals
\* 1 / get_exchange_rate(A, B).
C1_InverseInEveryStore ==
    (Resolved /\ PositiveRate(StoredPairs(last.before), PairKey(To, From)))
        => last.rate = RatInv(get_exchange_rate(last.before, To, From).rate)

\* C1, amended: for every store and every stored pair A_B with rate > 0 whose
\* reverse key B_A is not itself stored with a rate > 0 (or A = B),
\* get_exchange_rate(B, A) equals 1 / get_exchange_rate(A, B).
C1_InverseWithoutReversePair ==
    (/\ Resolved
     /\ PositiveRate(StoredPairs(last.before), PairKey(To, From))
     /\ From = To \/ ~PositiveRate(StoredPairs(last.before), PairKey(From, To)))
        => last.rate = RatInv(get_exchange_rate(last.before, To, From).rate)

\* C1 witness: B -> A was asked of a store holding A_B with a positive rate
\* and B_A with a rate that is not positive; the answer is 1 / rate(A_B).
C1_Witness ==
    /\ Resolved
    /\ From # To
    /\ PositiveRate(StoredPairs(last.before), PairKey(To, From))
    /\ NonPositiveRate(StoredPairs(last.before), PairKey(From, To))
    /\ last.rate = RatInv(StoredRate(StoredPairs(last.before), PairKey(To, From)))

\* C2: with A_USD = a > 0 and B_USD = b > 0 stored and neither A_B nor B_A
\* stored, get_exchange_rate(A, B) is a / b, for non-USD currencies A # B.
C2_CrossRate ==
    LET pairs == StoredPairs(last.before)
    IN  (/\ Resolved
         /\ From # To /\ From # "USD" /\ To # "USD"
         /\ PositiveRate(pairs, PairKey(From, "USD"))
         /\ PositiveRate(pairs, PairKey(To, "USD"))
         /\ ~Has(pairs, PairKey(From, To))
         /\ ~Has(pairs, PairKey(To, From)))
            => last.rate = RatDiv(StoredRate(pairs, PairKey(From, "USD")),
                                  StoredRate(pairs, PairKey(To, "USD")))

\* C2 witness: a cross rate was answered from two different USD rates.
C2_Witness ==
    LET pairs == StoredPairs(last.before)
    IN  /\ Resolved
        /\ From = "EUR" /\ To = "BTC"
        /\ PositiveRate(pairs, "EUR_USD")
        /\ PositiveRate(pairs, "BTC_USD")
        /\ StoredRate(pairs, "EUR_USD") # StoredRate(pairs, "BTC_USD")
        /\ ~Has(pairs, "EUR_BTC")
        /\ ~Has(pairs, "BTC_EUR")
        /\ last.rate = RatDiv(StoredRate(pairs, "EUR_USD"), StoredRate(pairs, "BTC_USD"))

\* The rate of X against USD as one lookup gives it: the stored X_USD, or
\* else the inverse of the stored USD_X; None when neither is stored with a
\* positive rate.
UsdLeg(pairs, code) ==
    IF PositiveRate(pairs, PairKey(code, "USD"))
    THEN StoredRate(pairs, PairKey(code, "USD"))
    ELSE IF PositiveRate(pairs, PairKey("USD", code))
    THEN RatInv(StoredRate(pairs, PairKey("USD", code)))
    ELSE None

\* C24: when neither A_B nor B_A is stored with a positive rate, a query
\* with USD on one side has no answer, whatever other pairs are stored (A_B
\* and B_USD give no A -> USD); a query of two other currencies is answered
\* only from the USD leg of each, each leg taken from one stored pair
\* (X_USD or the inverse of USD_X), and has no answer when a leg is missing.
C24_SingleHopThroughUsd ==
    Resolved => \E pairs \in {StoredPairs(last.before)} :
        (/\ From # To
         /\ ~PositiveRate(pairs, PairKey(From, To))
         /\ ~PositiveRate(pairs, PairKey(To, From)))
            => IF From = "USD" \/ To = "USD"
               THEN last.rate = None
               ELSE IF UsdLeg(pairs, From) # None /\ UsdLeg(pairs, To) # None
               THEN last.rate = RatDiv(UsdLeg(pairs, From), UsdLeg(pairs, To))
               ELSE last.rate = None

\* C24 witness: EUR -> USD was asked of a store holding only EUR_BTC and
\* BTC_USD, both positive, and had no answer.
C24_Witness ==
    Resolved /\ \E pairs \in {StoredPairs(last.before)} :
        /\ From = "EUR" /\ To = "USD"
        /\ DOMAIN pairs.d = {"EUR_BTC", "BTC_USD"}
        /\ PositiveRate(pairs, "EUR_BTC")
        /\ PositiveRate(pairs, "BTC_USD")
        /\ last.rate = None

\* C3: get_exchange_rate(X, X) returns 1.0 for every supported currency X,
\* whatever the rate file holds, without loading the store (the rate file is
\* not even created when it is missing).
C3_Identity ==
    (/\ last.op = "get_exchange_rate"
     /\ is_currency_supported(last.from)
     /\ is_currency_supported(last.to)
     /\ From = To)
        => /\ last.raised = ""
           /\ last.rate = RatOne
           /\ last.loads = 0
           /\ fs = last.before

\* C3 witness: X -> X was asked of a store holding an X_X pair whose rate is
\* positive and not 1.
C3_Witness ==
    /\ Resolved
    /\ From = To
    /\ PositiveRate(StoredPairs(last.before), PairKey(From, To))
    /\ StoredRate(StoredPairs(last.before), PairKey(From, To)) # RatOne
    /\ last.rate = RatOne

\* C5: a stored pair whose rate is zero or negative is read as if its key
\* were absent: the answer equals the answer on the store without that pair.
C5_NonPositiveIsAbsent ==
    Resolved =>
        LET pairs == StoredPairs(last.before)
        IN  \A key \in DOMAIN pairs.d :
                NonPositiveRate(pairs, key)
                    => last.rate =
                         get_exchange_rate(WithoutPair(last.before, key),
                                           last.from, last.to).rate

\* C5 witness: A -> B was asked of a store holding A_B with a rate that is
\* not positive, no B_A, and both USD rates; the answer is the cross rate.
C5_Witness ==
    LET pairs == StoredPairs(last.before)
    IN  /\ Resolved
        /\ From = "EUR" /\ To = "BTC"
        /\ NonPositiveRate(pairs, "EUR_BTC")
        /\ ~Has(pairs, "BTC_EUR")
        /\ PositiveRate(pairs, "EUR_USD")
        /\ PositiveRate(pairs, "BTC_USD")
        /\ last.rate = RatDiv(StoredRate(pairs, "EUR_USD"), StoredRate(pairs, "BTC_USD"))

\* ------------------------------------------- the freshness check, alone

\* The values of "last_refresh" drawn: null, "", a string that is no date, a
\* number, and ISO dates with and without a trailing "Z".
RefreshValues ==
    {JNull, JStr(""), JStr("yesterday"), Rat(5, 1)}
    \cup {IsoStr(t, z) : t \in 0..MaxTicks, z \in BOOLEAN}

FreshStores ==
    {EmptyFs, FsWith(EmptyFs, RATES_FILE, Garbage),
     FsWith(EmptyFs, RATES_FILE, Dump(JDict([pairs |-> EmptyDict])))}
    \cup {FsWith(EmptyFs, RATES_FILE, Dump(Snapshot(<<>>, v))) : v \in RefreshValues}

InitFresh ==
    /\ fs \in FreshStores
    /\ now \in 0..MaxTicks
    /\ py311 \in BOOLEAN
    /\ last = [op |-> "init"]
    /\ runs = 0
    /\ wr = Idle
    /\ rd = Idle

\* The clock advances by one tick.
Tick ==
    /\ now < MaxTicks
    /\ now' = now + 1
    /\ UNCHANGED <<fs, py311, last, runs, wr, rd>>

\* A call of is_rates_cache_fresh().
IsRatesCacheFresh ==
    \E r \in {is_rates_cache_fresh(fs, now, py311)} :
        /\ fs' = r.fs
        /\ last' = [op |-> "is_rates_cache_fresh", raised |-> r.raised,
                    fresh |-> r.fresh, at |-> now, before |-> fs]
        /\ UNCHANGED <<now, py311, runs, wr, rd>>

\* A call of get_rate_with_ttl_check(from_currency, to_currency).
GetRate(from_currency, to_currency) ==
    \E r \in {get_rate_with_ttl_check(fs, from_currency, to_currency, now, py311)} :
        /\ fs' = r.fs
        /\ last' = [op |-> "get_rate_with_ttl_check",
                    from |-> from_currency, to |-> to_currency,
                    raised |-> r.raised, rate |-> r.rate,
                    updated_at |-> r.updated_at, warning |-> r.warning,
                    at |-> now, before |-> fs]
        /\ UNCHANGED <<now, py311, runs, wr, rd>>

NextFresh == Tick \/ IsRatesCacheFresh

SpecFresh == InitFresh /\ [][NextFresh]_vars

\* The "last_refresh" of the rate file of directory f (null when absent).
StoredRefresh(f) ==
    LET d == load_rates(f).data
    IN  IF IsDict(d) /\ Has(d, "last_refresh") THEN Get(d, "last_refresh") ELSE JNull

\* The last call was an is_rates_cache_fresh that returned.
FreshChecked == last.op = "is_rates_cache_fresh" /\ last.raised = ""

\* v is an ISO date the running interpreter parses.
Parsable(v) == v.t = "isostr" /\ (v.z => py311)

\* C7, as stated: is_rates_cache_fresh returns false when last_refresh is
\* absent, unparsable or of age >= ttl, and true for every parsable
\* last_refresh of age < ttl.
C7_FreshIffParsableAndYoung ==
    FreshChecked =>
        LET v == StoredRefresh(last.before)
        IN  last.fresh = (/\ Parsable(v)
                          /\ (last.at - v.time) * TickSeconds < DefaultTtlSeconds)

\* ----------------------------------------------------- reads of the store

\* The pair keys of the stores drawn for the reads.
ReadKeys == {"EUR_USD", "GBP_USD", "BTC_EUR"}

\* The rate files drawn: none, one that is no UTF-8 text, the files that
\* are no snapshot, a snapshot with a pair of rate 0, and snapshots of any of
\* the keys, refreshed at this moment.
ReadStores ==
    {EmptyFs, FsWith(EmptyFs, RATES_FILE, Undecodable)}
    \cup {FsWith(EmptyFs, RATES_FILE, text) : text \in OddTexts}
    \cup {FsWith(EmptyFs, RATES_FILE,
                 Dump(Snapshot([k \in K |-> PairEntry(v, IsoStr(1, FALSE), "CoinGecko")],
                               IsoStr(1, FALSE)))) :
            K \in SUBSET ReadKeys, v \in {Rat(0, 1), Rat(2, 1)}}

\* The currencies asked for: registry codes, one in lower case, one unknown.
ReadQueries ==
    ({"USD", "EUR", "GBP", "BTC"} \X {"USD", "EUR", "GBP", "BTC"})
    \cup {<<"btc", "GBP">>, <<"DOGE", "USD">>, <<"EUR", "DOGE">>}

InitRead ==
    /\ fs \in ReadStores
    /\ now = 1
    /\ py311 \in BOOLEAN
    /\ last = [op |-> "init"]
    /\ runs = 0
    /\ wr = Idle
    /\ rd = Idle

\* A call of DatabaseManager().load_rates().
LoadRates ==
    /\ last.op = "init"
    /\ \E r \in {load_rates(fs)} :
         /\ fs' = r.fs
         /\ last' = [op |-> "load_rates", raised |-> r.raised, data |-> r.data,
                     before |-> fs]
    /\ UNCHANGED <<now, py311, runs, wr, rd>>

\* A call of RatesStorage.load_current_rates().
LoadCurrentRates ==
    /\ last.op = "init"
    /\ last' = [op |-> "load_current_rates", raised |-> "",
                rates |-> load_current_rates(fs), before |-> fs]
    /\ UNCHANGED <<fs, now, py311, runs, wr, rd>>

\* A call of RatesService.get_rate(from_currency, to_currency).
ServiceGetRate(from_currency, to_currency) ==
    /\ last.op = "init"
    /\ \E r \in {RatesService_get_rate(fs, from_currency, to_currency, now, py311)} :
         /\ fs' = r.fs
         /\ last' = [op |-> "RatesService.get_rate",
                     from |-> from_currency, to |-> to_currency,
                     raised |-> r.raised, ok |-> r.ok, message |-> r.message,
                     rate |-> r.rate, warning |-> r.warning, before |-> fs]
    /\ UNCHANGED <<now, py311, runs, wr, rd>>

NextRead ==
    \/ LoadRates
    \/ LoadCurrentRates
    \/ IsRatesCacheFresh
    \/ \E q \in ReadQueries : GetExchangeRate(q[1], q[2])
    \/ \E q \in ReadQueries : ServiceGetRate(q[1], q[2])
    \/ \E q \in ReadQueries : GetRate(q[1], q[2])
    \/ Tick

SpecRead == InitRead /\ [][NextRead]_vars

\* ------------------------------------------------------ claims on the reads

\* The resolver, asked the pair of the last call on the directory of before
\* the call, returns without a rate: no direct, inverse or cross path.
NoPath ==
    \E r \in {get_exchange_rate(last.before, last.from, last.to)} :
        r.raised = "" /\ r.rate = None

\* C19: when get_exchange_rate finds no direct, inverse or cross path for two
\* registered currencies, get_rate_with_ttl_check raises ApiRequestError and
\* RatesService.get_rate returns (False, message) and raises nothing; with
\* an empty store, EUR -> GBP is such a pair.
C19_NoPathIsUnavailable ==
    (/\ last.op = "RatesService.get_rate"
     /\ is_currency_supported(last.from)
     /\ is_currency_supported(last.to))
        => /\ NoPath =>
                /\ get_rate_with_ttl_check(last.before, From, To, now, py311).raised
                     = "ApiRequestError"
                /\ last.raised = ""
                /\ last.ok = FALSE
                /\ last.message = "unavailable"
           /\ (last.before = EmptyFs /\ last.from = "EUR" /\ last.to = "GBP") => NoPath

\* C19 witness: EUR -> GBP was asked of a store that holds BTC_EUR alone;
\* get_rate answered (False, unavailable).
C19_Witness ==
    /\ last.op = "RatesService.get_rate"
    /\ last.from = "EUR" /\ last.to = "GBP"
    /\ PositiveRate(StoredPairs(last.before), "BTC_EUR")
    /\ DOMAIN StoredPairs(last.before).d = {"BTC_EUR"}
    /\ NoPath
    /\ last.raised = ""
    /\ last.ok = FALSE
    /\ last.message = "unavailable"

\* C21: a stale cache never blocks a read: whenever get_exchange_rate
\* resolves a rate, get_rate_with_ttl_check returns that same rate, fresh
\* cache or not; staleness only adds the warning.
C21_StaleNeverBlocks ==
    last.op = "get_rate_with_ttl_check" =>
        \E r \in {get_exchange_rate(last.before, last.from, last.to)} :
            (r.raised = "" /\ r.rate # None)
                => (last.raised = "" /\ last.rate = r.rate)

\* The rate file of directory f is missing, unreadable or no valid JSON.
Unloadable(f) ==
    \/ ~FsExists(f, RATES_FILE)
    \/ JsonLoad(FsContent(f, RATES_FILE)).raised # ""

\* C20: loading the rate store never fails the caller: with the rate file
\* missing, unreadable or no valid JSON, load_rates returns {} and
\* load_current_rates returns no pairs, get_exchange_rate of two different
\* registered currencies returns no rate and is_rates_cache_fresh returns
\* false, and none of them raises.
C20_LoadNeverFails ==
    (last.op # "init" /\ Unloadable(last.before)) =>
        /\ last.op = "load_rates" => (last.raised = "" /\ last.data = EmptyDict)
        /\ last.op = "load_current_rates" => (last.raised = "" /\ last.rates = <<>>)
        /\ (/\ last.op = "get_exchange_rate"
            /\ is_currency_supported(last.from)
            /\ is_currency_supported(last.to)
            /\ From # To)
              => (last.raised = "" /\ last.rate = None)
        /\ last.op = "is_rates_cache_fresh" => (last.raised = "" /\ ~last.fresh)

\* ------------------------------------------------------ one update run

\* What _fetch_with_retry gives CoinGeckoClient: an ApiRequestError, a reply
\* that is JSON null, or prices of any of the coins asked for; a price is
\* null, negative, zero or positive.
CoinPrices == {JNull, Rat(-1, 1), Rat(0, 1)} \cup {Rat(k, 1) : k \in 2..MaxRate}

CoinReply(prices) ==
    [raised |-> "", data |-> JDict([c \in DOMAIN prices |-> JDict([usd |-> prices[c]])])]

CryptoReplies ==
    {[raised |-> "ApiRequestError", data |-> JNull], [raised |-> "", data |-> JNull]}
    \cup {CoinReply(<<>>), CoinReply([ethereum |-> Rat(2, 1)])}
    \cup {CoinReply([bitcoin |-> v]) : v \in CoinPrices}
    \cup {CoinReply([bitcoin |-> v, ethereum |-> Rat(2, 1)]) : v \in CoinPrices}

\* The HTTP replies of ExchangeRate-API: no reply (status 0), an error
\* status, a 200 whose "result" is not "success", and a 200 with conversion
\* rates; a raw rate is null, negative, zero or positive.
RawRates == {JNull, Rat(-1, 1), Rat(0, 1), Rat(2, 1)}

FiatReply(raw) ==
    [status |-> 200,
     data |-> JDict([result |-> JStr("success"), conversion_rates |-> JDict(raw)])]

FiatReplies ==
    {[status |-> c, data |-> JNull] : c \in {0, 403, 429, 500}}
    \cup {[status |-> 200, data |-> JDict([result |-> JStr("error")])],
          [status |-> 200, data |-> JDict([result |-> JStr("success")])]}
    \cup {FiatReply(<<>>), FiatReply([GBP |-> Rat(2, 1)])}
    \cup {FiatReply([EUR |-> v]) : v \in RawRates}
    \cup {FiatReply([EUR |-> v, GBP |-> Rat(2, 1)]) : v \in RawRates}

\* The values of source_filter ("" is None).
SourceFilters == {"", "coingecko", "CoinGecko", "exchangerate", "binance"}

\* A snapshot and a history left by an earlier run.
OldRates == [BTC_USD |-> Rat(2, 1)]
OldSources == [BTC_USD |-> "CoinGecko"]
OldFs == run_update(EmptyFs, 0, "", <<[raised |-> "", rates |-> OldRates],
                                      [raised |-> "ApiRequestError", rates |-> <<>>]>>, "").fs

\* The data directories an update run starts from: empty, left by an earlier
\* run, and with a history file that is no JSON.
UpdateStores ==
    {EmptyFs, OldFs, FsWith(OldFs, HISTORY_FILE, Garbage)}

InitUpdate ==
    /\ fs \in UpdateStores
    /\ now = 1
    /\ py311 = TRUE
    /\ last = [op |-> "init"]
    /\ runs = MaxRuns - 1
    /\ wr = Idle
    /\ rd = Idle

\* A call of run_update(source_filter): the clients fetch (CoinGecko gets
\* crypto_reply, ExchangeRate-API is built with api_key and gets fiat_reply),
\* and the storage meets `fault`.
RunUpdate(source_filter, api_key, crypto_reply, fiat_reply, fault) ==
    /\ runs < MaxRuns
    /\ \E fetched \in {<<CoinGeckoClient_fetch_rates(crypto_reply),
                          ExchangeRateApiClient_fetch_rates(api_key, fiat_reply)>>} :
         \E r \in {run_update(fs, now, source_filter, fetched, fault)} :
            /\ runs' = runs + 1
            /\ fs' = r.fs
            /\ last' = [op |-> "run_update", source_filter |-> source_filter,
                        fetched |-> fetched, fault |-> fault,
                        result |-> r.result, all_rates |-> r.all_rates,
                        invoked |-> r.invoked, storage_raised |-> r.stored.raised,
                        at |-> now, before |-> fs]
            /\ UNCHANGED <<now, py311, wr, rd>>

NextUpdate ==
    \E source_filter \in SourceFilters, api_key \in {"", "key"},
       crypto_reply \in CryptoReplies, fiat_reply \in FiatReplies, fault \in StorageFaults :
        /\ api_key = "" => fiat_reply.status = 0
        /\ RunUpdate(source_filter, api_key, crypto_reply, fiat_reply, fault)

SpecUpdate == InitUpdate /\ [][NextUpdate]_vars

\* ------------------------------------------- the clients against a server

\* The error statuses drawn, other than 429.
ErrorStatuses == {403, 404, 500}

\* What a server gives to one request: the reply the client asks for, 429,
\* another error status, no answer in time, or no connection.
ServerAnswers(body) ==
    {HttpResponse(200, body), HttpResponse(429, JNull), HttpTimeout, HttpConnectionError}
    \cup {HttpResponse(status, JNull) : status \in ErrorStatuses}

\* What a server gives to the first, second, ... request of one fetch.
CryptoServers == [1..max_retries -> ServerAnswers(CoinReply([bitcoin |-> Rat(2, 1)]).data)]
FiatServers == [1..max_retries -> ServerAnswers(FiatReply([EUR |-> Rat(2, 1)]).data)]

InitFetch ==
    /\ fs = EmptyFs
    /\ now = 0
    /\ py311 = TRUE
    /\ last = [op |-> "init"]
    /\ runs = 0
    /\ wr = Idle
    /\ rd = Idle

\* A call of CoinGeckoClient(config).fetch_rates().
FetchCrypto(responses) ==
    /\ last.op = "init"
    /\ \E r \in {CoinGeckoClient_fetch(responses)} :
         last' = [op |-> "fetch_rates", client |-> "CoinGeckoClient", api_key |-> "",
                  responses |-> responses, raised |-> r.raised, rates |-> r.rates,
                  requests |-> r.requests, sleeps |-> r.sleeps]
    /\ UNCHANGED <<fs, now, py311, runs, wr, rd>>

\* A call of ExchangeRateApiClient(config).fetch_rates(), the configuration
\* holding api_key.
FetchFiat(api_key, responses) ==
    /\ last.op = "init"
    /\ \E r \in {ExchangeRateApiClient_fetch(api_key, responses)} :
         last' = [op |-> "fetch_rates", client |-> "ExchangeRateApiClient",
                  api_key |-> api_key,
                  responses |-> responses, raised |-> r.raised, rates |-> r.rates,
                  requests |-> r.requests, sleeps |-> r.sleeps]
    /\ UNCHANGED <<fs, now, py311, runs, wr, rd>>

NextFetch ==
    \/ \E responses \in CryptoServers : FetchCrypto(responses)
    \/ \E api_key \in {"", "key"}, responses \in FiatServers : FetchFiat(api_key, responses)

SpecFetch == InitFetch /\ [][NextFetch]_vars

\* ------------------------------------------------- claims on the clients

\* The last call was a fetch_rates of a client that made a request.
Fetched == last.op = "fetch_rates" /\ last.requests > 0

\* The k-th request of the last fetch was made and met the status.
Met(k, status) ==
    /\ k <= last.requests
    /\ last.responses[k].kind = "response"
    /\ last.responses[k].status = status

\* C13: both clients answer HTTP 429 by retrying: a request that meets 429
\* is followed by a wait of 1 s, 2 s, 4 s (first, second, third request) and,
\* unless it was the third, by another request; at most 3 requests are made,
\* and a fetch that met nothing but 429 raises ApiRequestError only after
\* its third request.
C13_RetryOn429 ==
    Fetched =>
        /\ last.requests <= max_retries
        /\ \A k \in 1..last.requests :
              Met(k, 429) =>
                /\ k < max_retries => last.requests > k
                /\ \E j \in 1..Len(last.sleeps) : last.sleeps[j] = 2 ^ (k - 1)
        /\ Len(last.sleeps) = Cardinality({k \in 1..last.requests : Met(k, 429)})
        /\ (\A k \in 1..last.requests : Met(k, 429))
              => (last.raised = "ApiRequestError" /\ last.requests = max_retries)

\* C14: an HTTP error status other than 429 (403, 404, 500) makes the fetch
\* fail with ApiRequestError after exactly one request: it is never retried.
C14_OtherStatusNotRetried ==
    (Fetched /\ \E status \in ErrorStatuses : Met(1, status))
        => (last.raised = "ApiRequestError" /\ last.requests = 1)

\* ----------------------------------------------- claims on one update run

\* The last call was a run_update in which both clients were asked, one
\* raised ApiRequestError and the other returned.
UpdateRan == last.op = "run_update"
BothAsked == \A i \in 1..Len(Clients) : ~Skipped(Clients[i], last.source_filter)
OneFailedOneSucceeded ==
    /\ UpdateRan
    /\ BothAsked
    /\ \E i, j \in 1..Len(Clients) :
         /\ i # j
         /\ last.fetched[i].raised = "ApiRequestError"
         /\ last.fetched[j].raised = ""
Succeeding == CHOOSE j \in 1..Len(Clients) : last.fetched[j].raised = ""
Failing == CHOOSE i \in 1..Len(Clients) : last.fetched[i].raised # ""
SucceedingCount == Cardinality(DOMAIN last.fetched[Succeeding].rates)

\* C8, as stated: with one provider raising ApiRequestError and the other
\* succeeding, run_update returns success = true, total_rates = the pair
\* count of the succeeding provider, errors of exactly one entry and
\* successful_sources of exactly the succeeding provider, whatever mapping
\* the provider returns and whatever the storage write does.
C8_PartialFailure ==
    OneFailedOneSucceeded =>
        /\ last.result.success = TRUE
        /\ last.result.total_rates = SucceedingCount
        /\ Len(last.result.errors) = 1
        /\ last.result.successful_sources = <<Clients[Succeeding]>>

\* C8, amended: with one provider raising ApiRequestError and the other
\* succeeding, total_rates is the pair count of the succeeding provider and
\* successful_sources is exactly that provider; success is true iff that
\* count is not 0; errors holds the entry of the failing provider, followed
\* by one storage entry iff save_current_rates or append_to_history raised.
C8_PartialFailureAmended ==
    OneFailedOneSucceeded =>
        /\ last.result.success = (SucceedingCount > 0)
        /\ last.result.total_rates = SucceedingCount
        /\ last.result.successful_sources = <<Clients[Succeeding]>>
        /\ Len(last.result.errors) = 1 + (IF last.storage_raised # "" THEN 1 ELSE 0)
        /\ last.result.errors[1].client = Clients[Failing]
        /\ last.storage_raised # "" => last.result.errors[2].client = "storage"

\* C8 witness: CoinGecko raised, ExchangeRate-API returned two pairs and the
\* storage wrote them: success, two rates, one error, one successful source.
C8_Witness ==
    /\ OneFailedOneSucceeded
    /\ Failing = 1
    /\ SucceedingCount = 2
    /\ last.storage_raised = ""
    /\ last.result.success
    /\ last.result.total_rates = 2
    /\ Len(last.result.errors) = 1
    /\ last.result.successful_sources = <<"ExchangeRateApiClient">>
    /\ DOMAIN StoredPairs(fs).d = {"EUR_USD", "GBP_USD"}

\* The last run_update saved a snapshot: it had pairs to save and
\* save_current_rates returned.
SaveFaults == {"save_open", "save_write", "save_replace"}
Persisted == UpdateRan /\ DOMAIN last.all_rates # {} /\ last.fault \notin SaveFaults

\* C11: after every run_update that persists, the stored pairs are exactly
\* the merged pairs of that run, with the merged rates: a pair of the previous
\* snapshot that no provider returned in this run is no longer stored.
C11_StoreFullyReplaced ==
    Persisted =>
        \E pairs \in {StoredPairs(fs)} :
            /\ DOMAIN pairs.d = DOMAIN last.all_rates
            /\ \A key \in DOMAIN pairs.d :
                  Get(pairs.d[key], "rate") = last.all_rates[key]

\* C11 witness: the previous snapshot held BTC_USD, CoinGecko failed in this
\* run and ExchangeRate-API returned EUR_USD: only EUR_USD is stored.
C11_Witness ==
    /\ Persisted
    /\ Has(StoredPairs(last.before), "BTC_USD")
    /\ last.fetched[1].raised = "ApiRequestError"
    /\ DOMAIN last.all_rates = {"EUR_USD"}
    /\ DOMAIN StoredPairs(fs).d = {"EUR_USD"}

\* The filter names the provider behind the client.
Matches(client_name, source_filter) ==
    \/ source_filter \in {"coingecko", "CoinGecko"} /\ client_name = "CoinGeckoClient"
    \/ source_filter = "exchangerate" /\ client_name = "ExchangeRateApiClient"

\* fetch_rates of the client was called in the last run.
Invoked(client_name) == \E i \in 1..Len(last.invoked) : last.invoked[i] = client_name

\* C16: when source_filter is set, run_update calls fetch_rates on the
\* providers the filter names and on no other: a provider that does not
\* match is skipped, for every filter value, also one that names no
\* configured provider.
C16_FilterSkipsOthers ==
    (UpdateRan /\ last.source_filter # "")
        => \A i \in 1..Len(Clients) :
             Invoked(Clients[i]) <=> Matches(Clients[i], last.source_filter)

\* The clients whose fetch_rates was called and returned in the last run, in
\* order, and the pairs they returned.
Returned(i) == ~Skipped(Clients[i], last.source_filter) /\ last.fetched[i].raised = ""
ReturnedSources ==
    (IF Returned(1) THEN <<Clients[1]>> ELSE <<>>)
    \o (IF Returned(2) THEN <<Clients[2]>> ELSE <<>>)
ReturnedPairs == UNION {DOMAIN last.fetched[i].rates : i \in {j \in 1..2 : Returned(j)}}

\* C17: when save_current_rates or append_to_history raises during
\* run_update, run_update returns a result whose errors end with the storage
\* failure, while success, total_rates and successful_sources are those of
\* the fetches: success is true, every pair fetched is counted and every
\* provider that returned is in successful_sources.
C17_StorageFailureKeepsFetches ==
    (UpdateRan /\ last.storage_raised # "")
        => /\ last.result.success = TRUE
           /\ last.result.total_rates = Cardinality(ReturnedPairs)
           /\ last.result.successful_sources = ReturnedSources
           /\ Len(last.result.errors) = Len(last.invoked) - Len(ReturnedSources) + 1
           /\ last.result.errors[Len(last.result.errors)].client = "storage"

\* C17 witness: both providers returned pairs, os.replace raised in
\* save_current_rates: success, two sources, one error (the storage's), and
\* the rate file is the one of before.
C17_Witness ==
    /\ UpdateRan
    /\ last.fault = "save_replace"
    /\ last.storage_raised = "OSError"
    /\ last.result.success
    /\ last.result.total_rates = 4
    /\ last.result.successful_sources = Clients
    /\ Len(last.result.errors) = 1
    /\ last.result.errors[1].client = "storage"
    /\ StoredPairs(fs) = StoredPairs(last.before)

\* C18: when every provider invoked fails, run_update returns success =
\* false, total_rates = 0, no successful source and one error per provider
\* invoked, in order; and in every run success is true exactly when the
\* merged rate set is not empty.
C18_AllFailed ==
    UpdateRan =>
        /\ ReturnedSources = <<>>
             => /\ last.result.success = FALSE
                /\ last.result.total_rates = 0
                /\ last.result.successful_sources = <<>>
                /\ Len(last.result.errors) = Len(last.invoked)
                /\ \A i \in 1..Len(last.invoked) :
                      last.result.errors[i].client = last.invoked[i]
        /\ last.result.success = (ReturnedPairs # {})

\* C18 witness: both providers were invoked and both raised: no success, no
\* rates, two errors, and the data directory is as before.
C18_Witness ==
    /\ UpdateRan
    /\ last.invoked = Clients
    /\ ReturnedSources = <<>>
    /\ last.result.success = FALSE
    /\ last.result.total_rates = 0
    /\ Len(last.result.errors) = 2
    /\ Has(StoredPairs(last.before), "BTC_USD")
    /\ fs = last.before

\* The records of the history file of directory f (none when the file is
\* missing or holds no JSON list).
HistoryOf(f) ==
    IF ~FsExists(f, HISTORY_FILE) THEN <<>>
    ELSE CHOOSE out \in
           {IF loaded.raised = "" /\ loaded.value.t = "list"
            THEN loaded.value.items ELSE <<>> :
              loaded \in {JsonLoad(FsContent(f, HISTORY_FILE))}} : TRUE

\* C12: the history log is append-only: every record that was in the history
\* file before a run_update (so before its append_to_history) is still in
\* it afterwards, unchanged and at the same position, also when the existing
\* file cannot be read, and the record count never decreases.
C12_HistoryAppendOnly ==
    UpdateRan =>
        \E old \in {HistoryOf(last.before)} :
            \E new \in {HistoryOf(fs)} :
                /\ Len(new) >= Len(old)
                /\ SubSeq(new, 1, Len(old)) = old

\* ------------------------------------- one update run of any two clients

\* What fetch_rates of a client gives to run_update: an ApiRequestError,
\* another exception, or a mapping of any of two pairs to rates. The pairs
\* a client returns depend on the currencies it is configured with, so both
\* clients may return the same pair.
MergeKeys == {"BTC_USD", "EUR_USD"}
MergeResults ==
    {[raised |-> e, rates |-> <<>>] : e \in {"ApiRequestError", "KeyError"}}
    \cup {[raised |-> "", rates |-> r] :
            r \in UNION {[K -> {Rat(2, 1), Rat(MaxRate, 1)}] : K \in SUBSET MergeKeys}}

\* A call of run_update(source_filter) of an updater whose clients give
\* `fetched`.
RunUpdateWith(source_filter, fetched, fault) ==
    /\ runs < MaxRuns
    /\ \E r \in {run_update(fs, now, source_filter, fetched, fault)} :
         /\ runs' = runs + 1
         /\ fs' = r.fs
         /\ last' = [op |-> "run_update", source_filter |-> source_filter,
                     fetched |-> fetched, fault |-> fault,
                     result |-> r.result, all_rates |-> r.all_rates,
                     invoked |-> r.invoked, storage_raised |-> r.stored.raised,
                     at |-> now, before |-> fs]
         /\ UNCHANGED <<now, py311, wr, rd>>

NextMerge ==
    \E source_filter \in {"", "coingecko", "exchangerate"},
       first \in MergeResults, second \in MergeResults,
       fault \in {"", "save_replace", "hist_open"} :
        RunUpdateWith(source_filter, <<first, second>>, fault)

SpecMerge == InitUpdate /\ [][NextMerge]_vars

\* The position of a client in the configured list.
ClientIndex(client_name) == CHOOSE i \in 1..Len(Clients) : Clients[i] = client_name

\* The last client, in the order of the list, that returned the pair in the
\* last run.
LastReturning(key) ==
    CHOOSE i \in 1..Len(Clients) :
        /\ Returned(i) /\ key \in DOMAIN last.fetched[i].rates
        /\ \A j \in 1..Len(Clients) :
              (Returned(j) /\ key \in DOMAIN last.fetched[j].rates) => j <= i

\* C23: within one run_update the providers are invoked in the order of the
\* configured list, and for every pair the persisted rate and the persisted
\* source are those of the last provider, in that order, that returned it.
C23_LastProviderWins ==
    UpdateRan =>
        /\ \A i, j \in 1..Len(last.invoked) :
              i < j => ClientIndex(last.invoked[i]) < ClientIndex(last.invoked[j])
        /\ Persisted =>
              \E pairs \in {StoredPairs(fs)} :
                 \A key \in DOMAIN pairs.d :
                    /\ Get(pairs.d[key], "rate")
                         = last.fetched[LastReturning(key)].rates[key]
                    /\ Get(pairs.d[key], "source")
                         = JStr(SourceName(Clients[LastReturning(key)]))

\* C23 witness: both providers returned BTC_USD, with different rates; the
\* rate and the source persisted are the second provider's.
C23_Witness ==
    /\ Persisted
    /\ last.invoked = Clients
    /\ Returned(1) /\ Returned(2)
    /\ "BTC_USD" \in DOMAIN last.fetched[1].rates
    /\ "BTC_USD" \in DOMAIN last.fetched[2].rates
    /\ last.fetched[1].rates["BTC_USD"] # last.fetched[2].rates["BTC_USD"]
    /\ StoredRate(StoredPairs(fs), "BTC_USD") = last.fetched[2].rates["BTC_USD"]
    /\ Get(Get(StoredPairs(fs), "BTC_USD"), "source") = JStr("ExchangeRate-API")

\* How many entries of the sequence satisfy: entry = x.
Occurrences(seq, x) == Cardinality({i \in 1..Len(seq) : seq[i] = x})

\* How many entries of the errors of the last result are about the client.
ErrorsAbout(client_name) ==
    Cardinality({i \in 1..Len(last.result.errors) :
                    last.result.errors[i].client = client_name})

\* C25: run_update returns a result whatever each provider does (returns,
\* raises ApiRequestError, raises another exception) and whatever the
\* storage does: fetch_rates of every provider the filter does not skip is
\* called exactly once, also after an earlier provider failed, and each
\* provider called is exactly once in successful_sources or exactly once in
\* errors, never in both; a skipped provider is in neither.
C25_EveryProviderAskedOnce ==
    UpdateRan =>
        \A i \in 1..Len(Clients) :
            /\ Occurrences(last.invoked, Clients[i])
                 = (IF Skipped(Clients[i], last.source_filter) THEN 0 ELSE 1)
            /\ Occurrences(last.result.successful_sources, Clients[i])
                 + ErrorsAbout(Clients[i])
                 = Occurrences(last.invoked, Clients[i])
            /\ last.fetched[i].raised # ""
                 => Occurrences(last.result.successful_sources, Clients[i]) = 0

\* C25 witness: the first provider raised an exception that is no
\* ApiRequestError, the second one was still called and returned pairs; the
\* first is in errors, the second in successful_sources.
C25_Witness ==
    /\ UpdateRan
    /\ last.fetched[1].raised = "KeyError"
    /\ last.fetched[2].raised = "" /\ DOMAIN last.fetched[2].rates # {}
    /\ last.invoked = Clients
    /\ last.result.successful_sources = <<Clients[2]>>
    /\ ErrorsAbout(Clients[1]) = 1 /\ ErrorsAbout(Clients[2]) = 0
    /\ last.result.success

\* C26: run_update calls the storage if and only if some provider that was
\* asked returned at least one pair. When none did (all failed, were
\* filtered out or returned no pairs) the data directory is left as it was:
\* same snapshot, same last_refresh, same history file. When some did and
\* the storage raised nothing, the snapshot is replaced by the merged pairs
\* with last_refresh at the time of the run and the history has one more
\* record per merged pair.
C26_WritesIffMerged ==
    UpdateRan =>
        IF ReturnedPairs = {}
        THEN fs = last.before /\ last.storage_raised = ""
        ELSE last.storage_raised = "" =>
               \E data \in {load_rates(fs).data} :
                  /\ DOMAIN Get(data, "pairs").d = ReturnedPairs
                  /\ Get(data, "last_refresh") = IsoStr(last.at, TRUE)
                  /\ Len(HistoryOf(fs))
                       = Len(HistoryOf(last.before)) + Cardinality(ReturnedPairs)

\* C26 witness: on a directory left by an earlier run, one provider raised
\* and the other returned an empty mapping; the run wrote nothing.
C26_Witness ==
    /\ UpdateRan
    /\ last.before = OldFs
    /\ last.invoked = Clients
    /\ last.fetched[1].raised # ""
    /\ last.fetched[2].raised = "" /\ DOMAIN last.fetched[2].rates = {}
    /\ ~last.result.success
    /\ fs = OldFs
    /\ StoredPairs(fs) = StoredPairs(OldFs)
    /\ Len(HistoryOf(fs)) = 1

\* ------------------------------------------- updates, the clock and reads

\* The replies drawn when several runs follow each other.
FewCryptoReplies ==
    {[raised |-> "ApiRequestError", data |-> JNull], CoinReply([bitcoin |-> Rat(0, 1)])}
FewFiatReplies == {[status |-> 0, data |-> JNull], FiatReply([EUR |-> Rat(2, 1)])}
FewFaults == {"", "save_replace"}
FewQueries == {<<"BTC", "USD">>, <<"EUR", "USD">>}

Init ==
    /\ fs = EmptyFs
    /\ now = 0
    /\ py311 \in BOOLEAN
    /\ last = [op |-> "init"]
    /\ runs = 0
    /\ wr = Idle
    /\ rd = Idle

Next ==
    \/ \E crypto_reply \in FewCryptoReplies, fiat_reply \in FewFiatReplies,
          fault \in FewFaults :
            RunUpdate("", "key", crypto_reply, fiat_reply, fault)
    \/ Tick
    \/ IsRatesCacheFresh
    \/ \E q \in FewQueries : GetRate(q[1], q[2])

Spec == Init /\ [][Next]_vars

\* ------------------------------------------------- the command, once

\* The values of --source drawn ("" is no --source).
CmdSources == {"", "coingecko", "exchangerate"}

InitCmd ==
    /\ fs \in {EmptyFs, OldFs}
    /\ now = 1
    /\ py311 = TRUE
    /\ last = [op |-> "init"]
    /\ runs = 0
    /\ wr = Idle
    /\ rd = Idle

\* The operator runs update-rates [--source source] with EXCHANGERATE_API_KEY
\* set to api_key.
CmdUpdateRates(source, api_key, crypto_reply, fiat_reply, fault) ==
    /\ last.op = "init"
    /\ \E fetched \in {<<CoinGeckoClient_fetch_rates(crypto_reply),
                          ExchangeRateApiClient_fetch_rates(api_key, fiat_reply)>>} :
         \E r \in {cmd_update_rates(fs, now, source, api_key, fetched, fault)} :
            /\ fs' = r.fs
            /\ last' = [op |-> "cmd_update_rates", source |-> source,
                        api_key |-> api_key, fetched |-> fetched, fault |-> fault,
                        returned |-> r.returned, all_rates |-> r.all_rates,
                        invoked |-> r.invoked, result |-> r.result,
                        at |-> now, before |-> fs]
            /\ UNCHANGED <<now, py311, runs, wr, rd>>

NextCmd ==
    \E source \in CmdSources, api_key \in {"", "key"},
       crypto_reply \in CryptoReplies, fiat_reply \in FewFiatReplies, fault \in FewFaults :
        /\ api_key = "" => fiat_reply.status = 0
        /\ CmdUpdateRates(source, api_key, crypto_reply, fiat_reply, fault)

SpecCmd == InitCmd /\ [][NextCmd]_vars

\* C15: when the API key of the fiat provider is missing, an update run by
\* the operator fails the fetch of the fiat provider only: the crypto provider
\* is still invoked (unless --source leaves it out) and, when its fetch
\* returns pairs and the storage works, these pairs are persisted.
C15_MissingKeyFailsFiatOnly ==
    (/\ last.op = "cmd_update_rates"
     /\ last.api_key = ""
     /\ ~Skipped("CoinGeckoClient", last.source))
        => /\ \E i \in 1..Len(last.invoked) : last.invoked[i] = "CoinGeckoClient"
           /\ (/\ last.fetched[1].raised = ""
               /\ DOMAIN last.fetched[1].rates # {}
               /\ last.fault = "")
                 => DOMAIN StoredPairs(fs).d = DOMAIN last.fetched[1].rates

\* --------------------------------------- claims on updates followed by reads

\* C4: after any sequence of run_update calls, every pair of the persisted
\* snapshot has a rate that is a number > 0.
C4_PersistedRatesPositive ==
    \A key \in DOMAIN StoredPairs(fs).d : PositiveRate(StoredPairs(fs), key)

\* The rate file read by the last call was written by save_current_rates at
\* clock reading StoredRefresh(..).time, less than the TTL ago.
ReadWithinTtl ==
    LET v == StoredRefresh(last.before)
    IN  /\ v.t = "isostr"
        /\ (last.at - v.time) * TickSeconds < rates_ttl_seconds

\* C6: a snapshot persisted by run_update at t is fresh at every t' with
\* t' - t < ttl, and a get_rate in that window (so also right after the
\* update) carries no staleness warning.
C6_FreshAfterUpdate ==
    /\ (FreshChecked /\ ReadWithinTtl) => last.fresh
    /\ (last.op = "get_rate_with_ttl_check" /\ last.raised = "" /\ ReadWithinTtl)
          => ~last.warning

\* ------------------------------------------ updates with rates, then reads

\* Replies of CoinGecko with a positive price, and the queries of the pairs
\* the clients persist, one in each direction.
PricedCryptoReplies ==
    {[raised |-> "ApiRequestError", data |-> JNull], CoinReply([bitcoin |-> Rat(MaxRate, 1)])}
RoundTripQueries == {<<"USD", "BTC">>, <<"EUR", "USD">>}

InitRoundTrip ==
    /\ fs = EmptyFs
    /\ now = 0
    /\ py311 = TRUE
    /\ last = [op |-> "init"]
    /\ runs = 0
    /\ wr = Idle
    /\ rd = Idle

NextRoundTrip ==
    \/ \E crypto_reply \in PricedCryptoReplies, fiat_reply \in FewFiatReplies,
          fault \in FewFaults :
            RunUpdate("", "key", crypto_reply, fiat_reply, fault)
    \/ Tick
    \/ \E q \in RoundTripQueries : GetRate(q[1], q[2])

SpecRoundTrip == InitRoundTrip /\ [][NextRoundTrip]_vars

\* What get_exchange_rate answers to each query on the present store.
Answers ==
    CHOOSE out \in
        {[q \in RoundTripQueries |-> resolve_loaded(data, q[1], q[2])] :
            data \in {load_rates(fs).data}} : TRUE

\* C27: after a run_update that persists the pair A_B with a rate r > 0,
\* get_exchange_rate(A, B) returns r and get_exchange_rate(B, A) returns
\* 1 / r, and no step other than a persisting run_update (a read, a
\* freshness check, the passing of time, an update that persists nothing)
\* changes what get_exchange_rate answers.
C27_RoundTrip ==
    /\ [](Persisted =>
            \A key \in DOMAIN last.all_rates :
               (IsNumber(last.all_rates[key]) /\ RatPos(last.all_rates[key])) =>
                  \E p \in {SplitPair(key)} :
                     /\ get_exchange_rate(fs, p[1], p[2]).rate = last.all_rates[key]
                     /\ get_exchange_rate(fs, p[2], p[1]).rate
                          = RatInv(last.all_rates[key]))
    /\ [][(runs' = runs \/ ~Persisted') => Answers' = Answers]_vars

\* C27 witness: BTC_USD was persisted with rate MaxRate and EUR_USD with
\* 1/2; later, USD -> BTC is read and answered 1 / MaxRate.
C27_Witness ==
    /\ last.op = "get_rate_with_ttl_check"
    /\ last.from = "USD" /\ last.to = "BTC"
    /\ now > 0
    /\ DOMAIN StoredPairs(fs).d = {"BTC_USD", "EUR_USD"}
    /\ StoredRate(StoredPairs(fs), "BTC_USD") = Rat(MaxRate, 1)
    /\ StoredRate(StoredPairs(fs), "EUR_USD") = Rat(1, 2)
    /\ last.raised = ""
    /\ last.rate = Rat(1, MaxRate)
    /\ Answers[<<"EUR", "USD">>] = Rat(1, 2)

\* ------------------------------- save_current_rates and a reader, by steps

\* The rate file of directory f, as a reader opening it now finds it.
RateFile(f) ==
    [found |-> FsExists(f, RATES_FILE),
     text |-> IF FsExists(f, RATES_FILE) THEN FsContent(f, RATES_FILE) ELSE <<>>]

\* The inodes the writer and the reader hold open.
Held(w, r) == {w.ino, r.ino} \ {0}

\* The rates a save is called with.
SavedRates ==
    {[BTC_USD |-> Rat(MaxRate, 1)], [BTC_USD |-> Rat(0, 1), EUR_USD |-> Rat(1, 2)]}

\* The data directories: empty, left by an earlier run, and left by an
\* earlier run whose next save was killed while writing.
SaveStores == {EmptyFs, OldFs, FsWith(OldFs, temp_file, <<[c |-> "{"]>>)}

InitSave ==
    /\ fs \in SaveStores
    /\ now = 1
    /\ py311 = TRUE
    /\ last = [op |-> "init"]
    /\ runs = 0
    /\ wr = Idle
    /\ rd = Idle

\* save_current_rates(rates, source_map) is called: the timestamp is read
\* and the document is built.
SaveBegin(rates) ==
    /\ wr.pc = "idle"
    /\ wr' = [pc |-> "open", ino |-> 0, off |-> 1, failed |-> "",
              chunks |-> Dump(SnapshotOf(rates, [k \in DOMAIN rates |-> "CoinGecko"], now)),
              before |-> RateFile(fs)]
    /\ UNCHANGED <<fs, now, py311, last, runs, rd>>

\* open(temp_file, "w")
SaveOpen ==
    /\ wr.pc = "open"
    /\ \E g \in {FsOpenW(fs, temp_file, Held(wr, rd))} :
        /\ fs' = g
        /\ wr' = [wr EXCEPT !.pc = "dump", !.ino = g.dir[temp_file]]
        /\ UNCHANGED <<now, py311, last, runs, rd>>

\* json.dump: one more chunk reaches the file.
SaveDump ==
    /\ wr.pc = "dump"
    /\ wr.off <= Len(wr.chunks)
    /\ fs' = FsWriteAt(fs, wr.ino, wr.off, wr.chunks[wr.off])
    /\ wr' = [wr EXCEPT !.off = @ + 1]
    /\ UNCHANGED <<now, py311, last, runs, rd>>

\* The with block ends: the file is closed.
SaveClose ==
    /\ wr.pc = "dump"
    /\ wr.off > Len(wr.chunks)
    /\ wr' = [wr EXCEPT !.pc = "replace", !.ino = 0]
    /\ fs' = FsGc(fs, Held(wr', rd))
    /\ UNCHANGED <<now, py311, last, runs, rd>>

\* os.replace(temp_file, self.rates_file)
SaveReplace ==
    /\ wr.pc = "replace"
    /\ fs' = FsReplace(fs, temp_file, RATES_FILE, Held(wr, rd))
    /\ wr' = [wr EXCEPT !.pc = "done"]
    /\ UNCHANGED <<now, py311, last, runs, rd>>

\* The step at hand (open, a write, the close, os.replace) raises an
\* Exception; the with block closes the file.
SaveFail ==
    /\ wr.pc \in {"open", "dump", "replace"}
    /\ wr' = [wr EXCEPT !.pc = "except", !.ino = 0, !.failed = wr.pc]
    /\ fs' = FsGc(fs, Held(wr', rd))
    /\ UNCHANGED <<now, py311, last, runs, rd>>

\* The except branch: the temporary file is removed, the error raised again.
SaveExcept ==
    /\ wr.pc = "except"
    /\ fs' = IF FsExists(fs, temp_file) THEN FsRemove(fs, temp_file, Held(wr, rd)) ELSE fs
    /\ wr' = [wr EXCEPT !.pc = "raised"]
    /\ UNCHANGED <<now, py311, last, runs, rd>>

\* The process is killed, or a KeyboardInterrupt passes through the
\* except Exception branch: nothing is cleaned up.
SaveInterrupt ==
    /\ wr.pc \in {"open", "dump", "replace"}
    /\ wr' = [wr EXCEPT !.pc = "interrupted", !.ino = 0, !.failed = wr.pc]
    /\ fs' = FsGc(fs, Held(wr', rd))
    /\ UNCHANGED <<now, py311, last, runs, rd>>

\* A reader is called: DatabaseManager.load_rates or
\* RatesStorage.load_current_rates; its first step is os.path.exists.
LoadBegin(kind) ==
    /\ rd.pc = "idle"
    /\ rd' = [pc |-> IF FsExists(fs, RATES_FILE) THEN "open"
                     ELSE IF kind = "load_rates" THEN "create" ELSE "done",
              kind |-> kind, ino |-> 0, off |-> 1, found |-> FALSE, seen |-> <<>>]
    /\ UNCHANGED <<fs, now, py311, last, runs, wr>>

\* _ensure_file_exists found no file: open(filepath, "w"), json.dump({}).
LoadCreate ==
    /\ rd.pc = "create"
    /\ \E g \in {FsOpenW(fs, RATES_FILE, Held(wr, rd))} :
        /\ fs' = FsWriteAll(g, g.dir[RATES_FILE], Dump(EmptyDict))
        /\ rd' = [rd EXCEPT !.pc = "open"]
        /\ UNCHANGED <<now, py311, last, runs, wr>>

\* open(filepath, "r"); FileNotFoundError ends the call with {}.
LoadOpen ==
    /\ rd.pc = "open"
    /\ rd' = IF FsExists(fs, RATES_FILE)
             THEN [rd EXCEPT !.pc = "read", !.ino = fs.dir[RATES_FILE], !.found = TRUE]
             ELSE [rd EXCEPT !.pc = "done"]
    /\ UNCHANGED <<fs, now, py311, last, runs, wr>>

\* json.load reads on: one more chunk, or the end of the file, at which the
\* file is closed and the text parsed.
LoadRead ==
    /\ rd.pc = "read"
    /\ rd' = IF rd.off <= Len(fs.data[rd.ino])
             THEN [rd EXCEPT !.seen = Append(@, fs.data[rd.ino][rd.off]), !.off = @ + 1]
             ELSE [rd EXCEPT !.pc = "done", !.ino = 0]
    /\ fs' = FsGc(fs, Held(wr, rd'))
    /\ UNCHANGED <<now, py311, last, runs, wr>>

NextSave ==
    \/ \E rates \in SavedRates : SaveBegin(rates)
    \/ SaveOpen \/ SaveDump \/ SaveClose \/ SaveReplace
    \/ SaveFail \/ SaveExcept \/ SaveInterrupt
    \/ \E kind \in {"load_rates", "load_current_rates"} : LoadBegin(kind)
    \/ LoadCreate \/ LoadOpen \/ LoadRead

SpecSave == InitSave /\ [][NextSave]_vars

\* ------------------------------------------------- claims on save and load

\* C9: a step of save_current_rates before os.replace, and an Exception or
\* an interruption at any such step with the cleanup that follows, leaves
\* the rate file as it was: present or absent, with the same text.
C9_FailedSaveKeepsFile ==
    [][(wr' # wr /\ wr'.pc # "done") => RateFile(fs') = RateFile(fs)]_vars

\* C9 witness: the save was interrupted after the whole new snapshot was
\* written to the temporary file; the rate file holds its old text, which
\* is not the new one.
C9_Witness ==
    /\ wr.pc = "interrupted"
    /\ wr.failed = "replace"
    /\ FsExists(fs, temp_file)
    /\ FsContent(fs, temp_file) = wr.chunks
    /\ wr.before.found
    /\ wr.before.text # wr.chunks
    /\ RateFile(fs) = wr.before

\* The text a finished reader went by: the text it read, or that of {} when
\* it found no file.
Observed == IF rd.found THEN rd.seen ELSE Dump(EmptyDict)

\* The text of the snapshot before the save ({} when there was no file).
PreviousText == IF wr.before.found THEN wr.before.text ELSE Dump(EmptyDict)

\* C10: a reader that finishes while or after one save_current_rates runs
\* went by the whole previous snapshot or the whole new one.
C10_ReaderSeesWholeSnapshot ==
    (rd.pc = "done" /\ wr.pc # "idle") => Observed \in {PreviousText, wr.chunks}

\* C10 witness: the reader opened the rate file before os.replace and read
\* its last chunk after it: it went by the whole previous snapshot, while
\* the rate file holds the new one.
C10_Witness ==
    /\ rd.pc = "done"
    /\ wr.pc = "done"
    /\ rd.found
    /\ wr.before.found
    /\ rd.seen = wr.before.text
    /\ rd.seen # wr.chunks
    /\ RateFile(fs).text = wr.chunks

\* C28: a read never alters the persisted rates: under every interleaving of
\* a load_rates (its create-the-file-if-missing step included) or a
\* load_current_rates with a save_current_rates, once both have returned the
\* rate file holds the complete snapshot of the save.
C28_ReadNeverAlters ==
    (wr.pc = "done" /\ rd.pc = "done") =>
        (RateFile(fs).found /\ RateFile(fs).text = wr.chunks)

\* ----------------------------- two runs in save_current_rates, by steps

\* Two update runs (two processes) save to the same store; wr[w] is the
\* position of run w. Both use the path temp_file.
Writers == {1, 2}
HeldByWriters(w) == {w[i].ino : i \in Writers} \ {0}

InitTwoSaves ==
    /\ fs \in {EmptyFs, OldFs}
    /\ now = 1
    /\ py311 = TRUE
    /\ last = [op |-> "init"]
    /\ runs = 0
    /\ wr = [i \in Writers |-> Idle]
    /\ rd = Idle

\* Run w calls save_current_rates(rates, source_map): the timestamp is read
\* and the document is built.
WriterBegin(w, rates) ==
    /\ wr[w].pc = "idle"
    /\ wr' = [wr EXCEPT ![w] =
                [pc |-> "open", ino |-> 0, off |-> 1, failed |-> "",
                 chunks |-> Dump(SnapshotOf(rates, [k \in DOMAIN rates |-> "CoinGecko"],
                                           now))]]
    /\ UNCHANGED <<fs, now, py311, last, runs, rd>>

\* open(temp_file, "w") of run w: the file the other run has open under
\* that name is truncated, not replaced.
WriterOpen(w) ==
    /\ wr[w].pc = "open"
    /\ \E g \in {FsOpenW(fs, temp_file, HeldByWriters(wr))} :
        /\ fs' = g
        /\ wr' = [wr EXCEPT ![w].pc = "dump", ![w].ino = g.dir[temp_file]]
        /\ UNCHANGED <<now, py311, last, runs, rd>>

\* json.dump of run w: one more chunk reaches the file, at the offset of
\* run w's file object.
WriterDump(w) ==
    /\ wr[w].pc = "dump"
    /\ wr[w].off <= Len(wr[w].chunks)
    /\ fs' = FsWriteAt(fs, wr[w].ino, wr[w].off, wr[w].chunks[wr[w].off])
    /\ wr' = [wr EXCEPT ![w].off = @ + 1]
    /\ UNCHANGED <<now, py311, last, runs, rd>>

\* The with block of run w ends: the file is closed.
WriterClose(w) ==
    /\ wr[w].pc = "dump"
    /\ wr[w].off > Len(wr[w].chunks)
    /\ wr' = [wr EXCEPT ![w].pc = "replace", ![w].ino = 0]
    /\ fs' = FsGc(fs, HeldByWriters(wr'))
    /\ UNCHANGED <<now, py311, last, runs, rd>>

\* os.replace(temp_file, self.rates_file) of run w; FileNotFoundError when
\* the other run has already moved the temporary file.
WriterReplace(w) ==
    /\ wr[w].pc = "replace"
    /\ IF FsExists(fs, temp_file)
       THEN /\ fs' = FsReplace(fs, temp_file, RATES_FILE, HeldByWriters(wr))
            /\ wr' = [wr EXCEPT ![w].pc = "done"]
       ELSE /\ fs' = fs
            /\ wr' = [wr EXCEPT ![w].pc = "except", ![w].failed = "replace"]
    /\ UNCHANGED <<now, py311, last, runs, rd>>

\* The except branch of run w: the temporary file is removed when there is
\* one (the other run's, then), and the error is raised again.
WriterExcept(w) ==
    /\ wr[w].pc = "except"
    /\ fs' = IF FsExists(fs, temp_file)
             THEN FsRemove(fs, temp_file, HeldByWriters(wr)) ELSE fs
    /\ wr' = [wr EXCEPT ![w].pc = "raised"]
    /\ UNCHANGED <<now, py311, last, runs, rd>>

NextTwoSaves ==
    \E w \in Writers :
        \/ \E rates \in SavedRates : WriterBegin(w, rates)
        \/ WriterOpen(w) \/ WriterDump(w) \/ WriterClose(w)
        \/ WriterReplace(w) \/ WriterExcept(w)

SpecTwoSaves == InitTwoSaves /\ [][NextTwoSaves]_vars

\* ---------------------------------------------- claims on two saving runs

\* C29: when two runs execute save_current_rates concurrently on the same
\* store, under every interleaving neither save raises, and once both have
\* ended the rate file is the complete snapshot of one of the two runs.
C29_OneSnapshotWins ==
    (\A w \in Writers : wr[w].pc \in {"done", "raised"}) =>
        /\ \A w \in Writers : wr[w].pc = "done"
        /\ RateFile(fs).found
        /\ \E w \in Writers : RateFile(fs).text = wr[w].chunks

\* ------------------------------------- the persisting of a run, by steps

\* The history file of directory f, as a reader opening it now finds it.
HistoryFile(f) ==
    [found |-> FsExists(f, HISTORY_FILE),
     text |-> IF FsExists(f, HISTORY_FILE) THEN FsContent(f, HISTORY_FILE) ELSE <<>>]

\* save_current_rates returned and append_to_history is called with the
\* same rates: the timestamp is read, the existing history is loaded and
\* the records of the run are appended to it.
HistRead ==
    /\ wr.pc = "done"
    /\ \E loaded \in {IF FsExists(fs, HISTORY_FILE)
                       THEN JsonLoad(FsContent(fs, HISTORY_FILE))
                       ELSE [raised |-> "unread", value |-> None]} :
         \E pairs \in {Get(ParseValue(wr.chunks), "pairs").d} :
            LET history == IF loaded.raised = "" THEN loaded.value.items ELSE <<>>
                keys == Items(pairs)
                records ==
                    [i \in 1..Len(keys) |->
                        HistoryRecord(keys[i], Get(pairs[keys[i]], "rate"),
                                      IsoStr(datetime_utcnow(now), TRUE),
                                      Get(pairs[keys[i]], "source").s)]
            IN  wr' = [pc |-> "hist_open", ino |-> 0, off |-> 1, failed |-> "",
                       chunks |-> wr.chunks, before |-> wr.before,
                       hchunks |-> Dump(JList(history \o records)),
                       hbefore |-> HistoryFile(fs)]
    /\ UNCHANGED <<fs, now, py311, last, runs, rd>>

\* open(self.history_file, "w"): the file is created, or truncated in place.
HistOpen ==
    /\ wr.pc = "hist_open"
    /\ \E g \in {FsOpenW(fs, HISTORY_FILE, Held(wr, rd))} :
        /\ fs' = g
        /\ wr' = [wr EXCEPT !.pc = "hist_dump", !.ino = g.dir[HISTORY_FILE]]
        /\ UNCHANGED <<now, py311, last, runs, rd>>

\* json.dump(history, f): one more chunk reaches the file.
HistDump ==
    /\ wr.pc = "hist_dump"
    /\ wr.off <= Len(wr.hchunks)
    /\ fs' = FsWriteAt(fs, wr.ino, wr.off, wr.hchunks[wr.off])
    /\ wr' = [wr EXCEPT !.off = @ + 1]
    /\ UNCHANGED <<now, py311, last, runs, rd>>

\* The with block ends: append_to_history returns, and so does the
\* persisting step of run_update.
HistClose ==
    /\ wr.pc = "hist_dump"
    /\ wr.off > Len(wr.hchunks)
    /\ wr' = [wr EXCEPT !.pc = "returned", !.ino = 0]
    /\ fs' = FsGc(fs, Held(wr', rd))
    /\ UNCHANGED <<now, py311, last, runs, rd>>

\* The run is interrupted (the process is killed, or a KeyboardInterrupt
\* passes through the except Exception branches) between the two storage
\* calls or inside append_to_history.
HistInterrupt ==
    /\ wr.pc \in {"done", "hist_open", "hist_dump"}
    /\ wr' = [wr EXCEPT !.pc = "interrupted", !.ino = 0, !.failed = wr.pc]
    /\ fs' = FsGc(fs, Held(wr', rd))
    /\ UNCHANGED <<now, py311, last, runs, rd>>

NextPersist ==
    \/ \E rates \in SavedRates : SaveBegin(rates)
    \/ SaveOpen \/ SaveDump \/ SaveClose \/ SaveReplace
    \/ SaveFail \/ SaveExcept \/ SaveInterrupt
    \/ HistRead \/ HistOpen \/ HistDump \/ HistClose \/ HistInterrupt

SpecPersist == InitSave /\ [][NextPersist]_vars

\* ------------------------------------- claims on the persisting of a run

\* The rate file holds the snapshot of the run and the history file holds
\* the earlier records followed by the records of the run.
FullyPersisted ==
    /\ RateFile(fs).text = wr.chunks
    /\ "hchunks" \in DOMAIN wr
    /\ HistoryFile(fs).text = wr.hchunks

\* The rate file and the history file are those of before the run.
NothingPersisted ==
    /\ RateFile(fs) = wr.before
    /\ "hbefore" \in DOMAIN wr => HistoryFile(fs) = wr.hbefore

\* C22: an update run interrupted at any point leaves no partial persist:
\* either the whole merged set of the run is persisted, in the rate store
\* and in the history, or nothing of the run is.
C22_NoPartialPersist ==
    wr.pc = "interrupted" => (FullyPersisted \/ NothingPersisted)

\* ------------------------------------------------- wallets: buy and sell

\* Floats as buy and sell meet them: a rational, or what float("inf"),
\* float("-inf") and float("nan") give. Every comparison with nan is false.
PosInf == [t |-> "num", n |-> 1, d |-> 0]
NegInf == [t |-> "num", n |-> -1, d |-> 0]
NaN == [t |-> "num", n |-> 0, d |-> 0]
IsNaN(x) == x.n = 0 /\ x.d = 0
IsFinite(x) == x.d # 0

\* x + y
FloatAdd(x, y) ==
    IF IsNaN(x) \/ IsNaN(y) THEN NaN
    ELSE IF ~IsFinite(x) /\ ~IsFinite(y) THEN (IF x = y THEN x ELSE NaN)
    ELSE IF ~IsFinite(x) THEN x
    ELSE IF ~IsFinite(y) THEN y
    ELSE Rat(x.n * y.d + y.n * x.d, x.d * y.d)

\* -x, x - y
FloatNeg(x) == [x EXCEPT !.n = -x.n]
FloatSub(x, y) == FloatAdd(x, FloatNeg(y))

\* x < y, x <= y, x > y
FloatLt(x, y) ==
    /\ ~IsNaN(x) /\ ~IsNaN(y)
    /\ x # y
    /\ \/ x = NegInf
       \/ y = PosInf
       \/ IsFinite(x) /\ IsFinite(y) /\ x.n * y.d < y.n * x.d
FloatLe(x, y) == ~IsNaN(x) /\ ~IsNaN(y) /\ (x = y \/ FloatLt(x, y))
FloatGt(x, y) == FloatLt(y, x)
Zero == Rat(0, 1)

\* Wallet.deposit(amount) on a wallet of balance `balance`.
Wallet_deposit(balance, amount) ==
    IF ~IsNumber(amount) THEN [raised |-> "TypeError", balance |-> balance]
    ELSE IF FloatLe(amount, Zero) THEN [raised |-> "ValidationError", balance |-> balance]
    ELSE [raised |-> "", balance |-> FloatAdd(balance, amount)]

\* Wallet.withdraw(amount) on a wallet of balance `balance`.
Wallet_withdraw(balance, amount) ==
    IF ~IsNumber(amount) THEN [raised |-> "TypeError", balance |-> balance]
    ELSE IF FloatLe(amount, Zero) THEN [raised |-> "ValidationError", balance |-> balance]
    ELSE IF FloatGt(amount, balance)
    THEN [raised |-> "InsufficientFundsError", balance |-> balance]
    ELSE [raised |-> "", balance |-> FloatSub(balance, amount)]

\* The data directory of the wallet commands: the portfolios file (whether
\* it exists, and the list it holds: one record per user, "wallets" a
\* mapping of currency code to balance) and the rate files.
NoPortfolios == [found |-> FALSE, list |-> <<>>]
UserId == 1

\* load_portfolios(): the file is created holding [] when it is missing.
load_portfolios(f) ==
    [fs |-> [f EXCEPT !.portfolios.found = TRUE], portfolios |-> f.portfolios.list]

\* save_portfolios(portfolios)
save_portfolios(f, portfolios) ==
    [f EXCEPT !.portfolios = [found |-> TRUE, list |-> portfolios]]

\* The index of the user's portfolio in the list (0 when there is none).
PortfolioIndex(portfolios) ==
    IF \E i \in 1..Len(portfolios) : portfolios[i].user_id = UserId
    THEN CHOOSE i \in 1..Len(portfolios) :
            /\ portfolios[i].user_id = UserId
            /\ \A j \in 1..Len(portfolios) : portfolios[j].user_id = UserId => i <= j
    ELSE 0

\* The result of a wallet command that changed nothing but the files `f`.
Refused(f, raised, balance) ==
    [fs |-> f, ok |-> FALSE, raised |-> raised, old_balance |-> balance,
     new_balance |-> balance]

\* The report of a command that went through: get_exchange_rate(currency,
\* "USD") is called for the message, any exception of it is swallowed.
Reported(f, currency, old_balance, new_balance) ==
    CHOOSE out \in
        {[fs |-> [f EXCEPT !.rates = r.fs], ok |-> TRUE, raised |-> "",
          old_balance |-> old_balance, new_balance |-> new_balance] :
            r \in {get_exchange_rate(f.rates, currency, "USD")}} : TRUE

\* PortfolioService.buy_currency(currency, amount)
PortfolioService_buy_currency(f, logged_in, currency, amount) ==
    LET code == validate_currency_code(currency)
        Bought(loaded) ==
          LET at == PortfolioIndex(loaded.portfolios)
              portfolios == IF at = 0
                            THEN Append(loaded.portfolios,
                                        [user_id |-> UserId, wallets |-> <<>>])
                            ELSE loaded.portfolios
              i == IF at = 0 THEN Len(portfolios) ELSE at
              wallets == portfolios[i].wallets
              old_balance == IF code.code \in DOMAIN wallets
                             THEN wallets[code.code] ELSE Zero
              deposited == Wallet_deposit(old_balance, amount)
          IN  IF deposited.raised # ""
              THEN Refused(loaded.fs, deposited.raised, old_balance)
              ELSE Reported(save_portfolios(loaded.fs,
                              [portfolios EXCEPT ![i].wallets =
                                  (code.code :> deposited.balance) @@ wallets]),
                            code.code, old_balance, deposited.balance)
    IN  IF ~logged_in THEN Refused(f, "", None)
        ELSE IF code.raised # "" THEN Refused(f, code.raised, None)
        ELSE IF ~IsNumber(amount) \/ FloatLe(amount, Zero)
        THEN Refused(f, "ValidationError", None)
        ELSE CHOOSE out \in {Bought(loaded) : loaded \in {load_portfolios(f)}} : TRUE

\* PortfolioService.sell_currency(currency, amount)
PortfolioService_sell_currency(f, logged_in, currency, amount) ==
    LET code == validate_currency_code(currency)
        Sold(loaded) ==
          LET i == PortfolioIndex(loaded.portfolios)
              wallets == loaded.portfolios[i].wallets
              old_balance == wallets[code.code]
              withdrawn == Wallet_withdraw(old_balance, amount)
          IN  IF i = 0 THEN Refused(loaded.fs, "", None)
              ELSE IF code.code \notin DOMAIN wallets THEN Refused(loaded.fs, "", None)
              ELSE IF withdrawn.raised # ""
              THEN Refused(loaded.fs, withdrawn.raised, old_balance)
              ELSE Reported(save_portfolios(loaded.fs,
                              [loaded.portfolios EXCEPT ![i].wallets =
                                  (code.code :> withdrawn.balance) @@ wallets]),
                            code.code, old_balance, withdrawn.balance)
    IN  IF ~logged_in THEN Refused(f, "", None)
        ELSE IF code.raised # "" THEN Refused(f, code.raised, None)
        ELSE IF ~IsNumber(amount) \/ FloatLe(amount, Zero)
        THEN Refused(f, "ValidationError", None)
        ELSE CHOOSE out \in {Sold(loaded) : loaded \in {load_portfolios(f)}} : TRUE

\* The amounts float(amount_str) gives the commands, the currencies asked.
Amounts == {Rat(-1, 1), Zero, Rat(1, 2), Rat(1, 1), Rat(2, 1), PosInf, NaN}
WalletCodes == {"BTC", " eur ", "DOGE"}

InitWallet ==
    /\ fs = [portfolios |-> NoPortfolios, rates |-> EmptyFs]
    /\ now = 0
    /\ py311 = TRUE
    /\ last = [op |-> "init"]
    /\ runs = 0
    /\ wr = Idle
    /\ rd = Idle

\* The balance is kept within MaxBalance in the behaviours explored.
WithinBalance(balance) ==
    IF balance = None THEN TRUE
    ELSE IF ~IsFinite(balance) THEN TRUE
    ELSE FloatLe(balance, Rat(MaxBalance, 1))

\* A buy command.
BuyCurrency(logged_in, currency, amount) ==
    \E r \in {PortfolioService_buy_currency(fs, logged_in, currency, amount)} :
        /\ WithinBalance(r.new_balance)
        /\ fs' = r.fs
        /\ last' = [op |-> "buy_currency", logged_in |-> logged_in,
                    currency |-> currency, amount |-> amount,
                    ok |-> r.ok, raised |-> r.raised,
                    old_balance |-> r.old_balance, new_balance |-> r.new_balance,
                    before |-> fs]
        /\ UNCHANGED <<now, py311, runs, wr, rd>>

\* A sell command.
SellCurrency(logged_in, currency, amount) ==
    \E r \in {PortfolioService_sell_currency(fs, logged_in, currency, amount)} :
        /\ fs' = r.fs
        /\ last' = [op |-> "sell_currency", logged_in |-> logged_in,
                    currency |-> currency, amount |-> amount,
                    ok |-> r.ok, raised |-> r.raised,
                    old_balance |-> r.old_balance, new_balance |-> r.new_balance,
                    before |-> fs]
        /\ UNCHANGED <<now, py311, runs, wr, rd>>

NextWallet ==
    \E logged_in \in BOOLEAN, currency \in WalletCodes, amount \in Amounts :
        \/ BuyCurrency(logged_in, currency, amount)
        \/ SellCurrency(logged_in, currency, amount)

SpecWallet == InitWallet /\ [][NextWallet]_vars

\* ------------------------------------------------------ claims on wallets

\* C30: after any sequence of buy_currency and sell_currency every wallet
\* balance is >= 0, and a sell of more than the balance is refused with
\* InsufficientFundsError, the wallet balance and the persisted portfolios
\* being left as they were.
C30_BalancesNeverNegative ==
    /\ \A i \in 1..Len(fs.portfolios.list) :
          \A c \in DOMAIN fs.portfolios.list[i].wallets :
             FloatLe(Zero, fs.portfolios.list[i].wallets[c])
    /\ (IF last.op = "sell_currency" /\ IsNumber(last.old_balance)
        THEN FloatGt(last.amount, last.old_balance) ELSE FALSE)
          => /\ ~last.ok
             /\ last.raised = "InsufficientFundsError"
             /\ last.new_balance = last.old_balance
             /\ fs.portfolios = last.before.portfolios

====
